---- MODULE Spec2Model ----
(***************************************************************************)
(* Request-execution pipeline of the WHOOP TypeScript SDK:                 *)
(*   - RequestDeduplicator  (utils/deduplication.ts)                       *)
(*   - WhoopOAuthClient     (auth/oauth.ts)                                *)
(*   - WhoopHttpClient      (client.ts: request / performRequest /         *)
(*                           handleResponse, with withRetry)               *)
(*   - WhoopCache           (utils/cache.ts)                               *)
(*   - withRetry            (utils/retry.ts)                               *)
(*   - OptimizedHttpClient  (utils/http-client.ts: request)                *)
(* Every component has its own specifications (SpecDedup, SpecDedupLive,   *)
(* SpecBatch, SpecBatchLive, SpecOAuth, SpecPipeline, SpecAttach, SpecGet, *)
(* SpecCache, SpecCacheCounted, SpecCacheMem, SpecRetry, SpecOpt); the     *)
(* variables of the other components stay unchanged.                       *)
(* JavaScript is single-threaded: one action is one synchronous block of   *)
(* code, from one suspension point (await, timer) to the next.             *)
(***************************************************************************)
EXTENDS Integers, Sequences, FiniteSets, TLC

\* ------------------------------------------------------------------------
\* Bounds
\* ------------------------------------------------------------------------
NumCallers == 3
MaxCeiling == 2
MaxTime == 1
WindowMs == 1
NumProcs == 2
NumRequests == 1
NumGets == 2
MaxRetries == 2
MaxCacheSize == 2
MaxCacheTime == 2
MaxOps == 4
MaxCalls == 2
MaxAttempts == 3
MaxOAuthTicks == 3
ClockStepMs == 1100000

Callers == 1..NumCallers
Keys == {"a", "b"}
\* the keys generateDedupKey gives the requests of OptimizedHttpClient
DedupKeys == Keys \cup {"c"}
NoExec == 0
NoResult == <<>>


VARIABLES
  now,                   \* Date.now()
  \* RequestDeduplicator
  enabled,               \* config.enabled
  maxConcurrent,         \* config.maxConcurrent
  pendingRequests,       \* Map key -> pending request (named by its leader)
  execs,                 \* the PendingRequest objects, by leader
  concurrentRequests,    \* stats.concurrentRequests
  call,                  \* one execute() call per caller
  work,                  \* the requestFn invocation made for a caller
  batch                  \* batchQueue, batchTimer, the processBatch calls
                         \* in flight and the executeBatch calls

dedupVars == <<enabled, maxConcurrent, pendingRequests, execs,
               concurrentRequests, call, work, batch>>

VARIABLES
  \* WhoopOAuthClient
  tokens,                \* this.tokens
  refreshPromise,        \* this.refreshPromise (the refresh in flight)
  refreshCalls,          \* token-endpoint HTTP calls made so far
  \* WhoopHttpClient
  hasOAuth,              \* an OAuth client is configured
  hasCallback,           \* config.onTokenRefresh is set
  maxAttempts,           \* finalOptions.retries || 1
  gv,                    \* the getValidAccessToken() calls of the application
  proc                   \* the request() calls of the application

authVars == <<tokens, refreshPromise, refreshCalls, hasOAuth, hasCallback,
              maxAttempts, gv, proc>>

VARIABLES
  \* WhoopCache
  cache,                 \* Map key -> CacheEntry
  accessOrder,           \* Map key -> access counter value
  accessCounter,
  maxSize,               \* config.maxSize
  lastGet,               \* the get just made: the entry it found, what it returned
  lastSet,               \* the set just made: the keys it evicted, the keys read before it
  recency,               \* history: stored keys, least recently used first
  insertOrder,           \* history: stored keys, first inserted first
  readKeys,              \* history: stored keys read since they were inserted
  stats,                 \* this.stats, and the history of the calls counted
  mem                    \* this.totalSize, and the history of the eviction loop

cacheVars == <<cache, accessOrder, accessCounter, maxSize, lastGet, lastSet,
               recency, insertOrder, readKeys, stats, mem>>

VARIABLES
  \* withRetry
  retry                  \* one withRetry() call: its options, locals and history

retryVars == <<retry>>

VARIABLES
  \* OptimizedHttpClient
  opt                    \* the request() calls of the application

optVars == <<opt>>

vars == <<now, dedupVars, authVars, cacheVars, retryVars, optVars>>

\* ------------------------------------------------------------------------
\* Values of the OAuth client and of the HTTP client
\* ------------------------------------------------------------------------
Procs == 1..NumProcs
Requests == 1..NumRequests
Gets == 1..NumGets

\* OAuthTokens; access tokens are numbered: 0 is the one given to setTokens,
\* n > 0 the one returned by the n-th call of the token endpoint
\* storedAt is history: the time at which the client stored the token set
Tok(access, hasRefresh, expiresIn) ==
  [present |-> TRUE, access_token |-> access, has_refresh |-> hasRefresh,
   expires_in |-> expiresIn, storedAt |-> now]
NoTokens ==
  [present |-> FALSE, access_token |-> 0, has_refresh |-> FALSE,
   expires_in |-> 0, storedAt |-> 0]

ExpiresSoon == 300
ExpiresLater == 3600
BufferMs == 300000

\* what a promise settled with: a value or an error object
Res(type, status, cause, token) ==
  [type |-> type, status |-> status, cause |-> cause, token |-> token]
NoRes == Res("none", 0, "", 0)

\* a request() call: position, attempt number of withRetry, the bearer token
\* sent (-1: no Authorization header), the timer signal of the attempt, the
\* signal supplied by the caller (options.signal), the outcome of the refresh
\* awaited by handleResponse, the last error; then the history of the call:
\* HTTP calls made, refreshes attempted by handleResponse, whether a 401 was
\* seen, whether the tokens were cleared after a successful refresh, whether
\* an identical GET had returned data before the call was made (afterData),
\* whether an identical GET was in flight when the call was made (during),
\* whether a signal fired while the HTTP call of the latest attempt was in
\* flight (inFlightAbort), the status the API answered the latest HTTP call
\* with (answered, 0: no answer), whether the latest HTTP call failed in the
\* transport (transportFail), whether an HTTP call was made after an answer
\* 400, 401 or 404 (retried4xx)
IdleProc ==
  [pc |-> "idle", attempt |-> 0, bearer |-> -1,
   sigAborted |-> FALSE, callerAborted |-> FALSE,
   rres |-> "none", result |-> NoRes,
   apiCalls |-> 0, hRefreshes |-> 0, saw401 |-> FALSE,
   clearedAfterOk |-> FALSE, afterData |-> FALSE, during |-> FALSE,
   inFlightAbort |-> FALSE, answered |-> 0, transportFail |-> FALSE,
   retried4xx |-> FALSE]

\* a getValidAccessToken() call: position, result; then its history: the
\* refresh in flight when it was called, the refresh it awaits, the number
\* of token-endpoint calls made before it and until it returned
IdleGv ==
  [pc |-> "idle", result |-> NoRes, joined |-> 0, rid |-> 0,
   calls0 |-> 0, calls1 |-> 0]

InitAuthIdle ==
  /\ tokens = NoTokens
  /\ refreshPromise = 0
  /\ refreshCalls = 0
  /\ hasOAuth = FALSE
  /\ hasCallback = FALSE
  /\ maxAttempts = 1
  /\ gv = [p \in Procs |-> IdleGv]
  /\ proc = [p \in Requests |-> IdleProc]

\* ------------------------------------------------------------------------
\* Values of the cache
\* ------------------------------------------------------------------------
CacheKeys == {"k1", "k2", "k3"}
\* the empty string is a key like any other for the two Maps
EmptyKey == ""
\* the cache with totalSize followed, on three keys, the empty string among
\* them, and a value of estimated size 2
MemKeys == {EmptyKey, "k1", "k2"}
MemValues == {42}
DefaultTtl == 1
CustomTtls == {0}
NoTtl == -1
NoEntry == [present |-> FALSE, data |-> 0, timestamp |-> 0, ttl |-> 0,
            size |-> 0]

\* no get has just been made
NoGet == [key |-> "", hit |-> FALSE, data |-> 0, at |-> 0, entry |-> NoEntry]

\* no set has just been made
NoSet == [evicted |-> {}, readBefore |-> {}]

\* an empty cache; ks are the keys the application will use
InitCacheOn(ks) ==
  /\ cache = [k \in ks |-> NoEntry]
  /\ accessOrder = [k \in ks |-> 0]
  /\ accessCounter = 0
  /\ lastGet = NoGet
  /\ lastSet = NoSet
  /\ recency = <<>>
  /\ insertOrder = <<>>
  /\ readKeys = {}

InitCacheState == InitCacheOn(CacheKeys)

\* stats.hits and stats.misses; then history: whether the counters are
\* followed (they grow without bound), the number of get and has calls made,
\* which of the two the latest one was, whether the latest operation threw
NoStats == [on |-> FALSE, hits |-> 0, misses |-> 0, calls |-> 0,
            op |-> "none", threw |-> FALSE]

\* this.totalSize; then history: whether totalSize is followed (it grows
\* without bound), whether the latest set is still in its eviction loop and
\* will never leave it, the iterations that loop has made, the number of
\* entries it found
NoMem == [on |-> FALSE, totalSize |-> 0, hung |-> FALSE, iterations |-> 0,
          sizeBefore |-> 0]

InitCacheIdle ==
  maxSize = 1 /\ InitCacheState /\ stats = NoStats /\ mem = NoMem
InitCache ==
  /\ maxSize \in 1..MaxCacheSize
  /\ InitCacheState
  /\ stats = NoStats
  /\ mem = NoMem
InitCacheCounted ==
  /\ maxSize \in 1..MaxCacheSize
  /\ InitCacheState
  /\ stats = [NoStats EXCEPT !.on = TRUE]
  /\ mem = NoMem
InitCacheMem ==
  /\ maxSize \in 1..MaxCacheSize
  /\ InitCacheOn(MemKeys)
  /\ stats = NoStats
  /\ mem = [NoMem EXCEPT !.on = TRUE]

\* ------------------------------------------------------------------------
\* Values of withRetry
\* ------------------------------------------------------------------------
\* withRetry, lines 28-29: the default options
BaseDelayMs == 1000
MaxDelayMs == 30000

\* retryAfter of a WhoopRateLimitError built without one; delayMs of a
\* classification without one
NoRetryAfter == -1
NoDelay == -1

\* an error thrown by the operation: its class, its HTTP status (0 if it has
\* none) and, for a rate-limit error, its retryAfter in seconds
RetryErr(type, status, retryAfter) ==
  [type |-> type, status |-> status, retryAfter |-> retryAfter]
NoErr == RetryErr("none", 0, NoRetryAfter)
AbortedErr == RetryErr("Error: Request aborted", 0, NoRetryAfter)

RetryAfters == {NoRetryAfter, 0, 2, 45}

\* the errors an operation rejects with
OperationErrors ==
  {RetryErr("WhoopRateLimitError", 429, ra) : ra \in RetryAfters}
  \cup {RetryErr("WhoopAPIError", st, NoRetryAfter) : st \in {403, 500, 503}}
  \cup {RetryErr("WhoopValidationError", 400, NoRetryAfter),
        RetryErr("WhoopAuthError", 401, NoRetryAfter),
        RetryErr("WhoopNotFoundError", 404, NoRetryAfter),
        RetryErr("WhoopNetworkError", 0, NoRetryAfter),
        RetryErr("WhoopTimeoutError", 0, NoRetryAfter),
        RetryErr("WhoopOAuthError", 0, NoRetryAfter),
        RetryErr("WhoopConfigError", 0, NoRetryAfter),
        RetryErr("Error", 0, NoRetryAfter)}

\* Math.random() in thousandths: 0 <= r < 1
Randoms == {0, 500, 999}

\* no classification was made
NoInfo == [canRetry |-> FALSE, delayMs |-> NoDelay]

\* a withRetry() call: options (maxAttempts, whether a signal was passed and
\* whether it is aborted), position, the locals attempt, lastError and
\* retryInfo (and whether the latest catch computed it), the delay of the
\* last sleep, what the call settled with; then
\* its history: the errors of the invocations of the operation, in order,
\* and whether the signal was aborted when the latest invocation failed
IdleRetry ==
  [maxAttempts |-> 1, aborted |-> FALSE,
   pc |-> "idle", attempt |-> 0, lastError |-> NoErr,
   classified |-> FALSE, retryInfo |-> NoInfo, slept |-> NoDelay,
   settled |-> "none", result |-> NoErr,
   errs |-> <<>>, abortedAtFailure |-> FALSE]

InitRetryIdle == retry = IdleRetry

InitRetry ==
  \E n \in 1..MaxAttempts, a \in BOOLEAN :
    retry = [IdleRetry EXCEPT !.maxAttempts = n, !.aborted = a]

\* ------------------------------------------------------------------------
\* Values of the OptimizedHttpClient
\* ------------------------------------------------------------------------
\* one request() call: its arguments, where it is, the value it returned;
\* then history: whether it called cache.get, whether that call removed an
\* expired entry, whether it called cache.set
IdleOpt == [st |-> "idle", method |-> "GET", url |-> "u1", skip |-> FALSE,
            value |-> 0, probed |-> FALSE, removed |-> FALSE,
            stored |-> FALSE]

InitOptIdle == opt = <<>>

\* ------------------------------------------------------------------------
\* RequestDeduplicator
\* ------------------------------------------------------------------------
IdleCall == [st |-> "idle", key |-> "a", skip |-> FALSE, waited |-> FALSE,
             result |-> NoResult, peers |-> {}]

FreshExec == [key |-> "a", timestamp |-> 0, resolvers |-> {},
              aborted |-> FALSE, used |-> FALSE]

\* executeBatch: the batch keys, the calls made
BatchKeys == {"x", "y"}
NumBatchCalls == 3
BatchCalls == 1..NumBatchCalls
NoTimer == "none"

\* batchQueue (the calls queued for each key, in order), batchTimer (the
\* batchKey its callback holds), the requests each processBatch call in
\* flight has still to fetch (the first one is being fetched), and where
\* each executeBatch call is
NoBatch == [queue |-> [k \in BatchKeys |-> <<>>], timer |-> NoTimer,
            runs |-> {}, calls |-> [b \in BatchCalls |-> "idle"]]

\* a deduplicator whose executeBatch is never called
IdleBatch == [queue |-> <<>>, timer |-> NoTimer, runs |-> {}, calls |-> <<>>]

\* a deduplicator that has done nothing; ks are the keys the application
\* will use
InitDedupOn(ks, b) ==
  /\ batch = b
  /\ pendingRequests = [k \in ks |-> NoExec]
  /\ execs = [c \in Callers |-> FreshExec]
  /\ concurrentRequests = 0
  /\ call = [c \in Callers |-> IdleCall]
  /\ work = [c \in Callers |-> "none"]

InitDedupState == InitDedupOn(Keys, IdleBatch)

InitDedup ==
  /\ enabled \in BOOLEAN
  /\ maxConcurrent \in 1..MaxCeiling
  /\ InitDedupState

InitDedupIdle ==
  /\ enabled = TRUE
  /\ maxConcurrent = 1
  /\ InitDedupState

\* isWithinWindow(timestamp)
isWithinWindow(timestamp) == now - timestamp < WindowMs

\* the leaders whose work runs for key k without having been cancelled,
\* as seen by a caller at the moment it calls execute (history variable)
LivePeers(k) ==
  {d \in Callers : /\ call[d].st = "leading"
                   /\ execs[d].key = k
                   /\ work[d] = "running"
                   /\ isWithinWindow(execs[d].timestamp)}

PendingOfAnyKey(k) ==
  IF \E j \in Keys : pendingRequests[j] # NoExec
  THEN pendingRequests[CHOOSE j \in Keys : pendingRequests[j] # NoExec]
  ELSE NoExec

\* execute, line 74: this.pendingRequests.get(key)
PendingOf(k) == pendingRequests[k]

\* execute, lines 73-97: attach to the pending request of the key or start
\* a new one.  c is the caller, cl its call record.
ExecuteBody(c, cl) ==
  LET k == cl.key
      existing == PendingOf(k)
  IN IF existing # NoExec /\ isWithinWindow(execs[existing].timestamp)
     THEN \* attachToExisting
          /\ execs' = [execs EXCEPT ![existing].resolvers = @ \cup {c}]
          /\ call' = [call EXCEPT ![c] = [cl EXCEPT !.st = "attached"]]
          /\ UNCHANGED <<pendingRequests, concurrentRequests, work>>
     ELSE \* executeWithMetrics calls requestFn at once
          /\ work' = [work EXCEPT ![c] = "running"]
          /\ execs' = [execs EXCEPT ![c] =
                         [key |-> k, timestamp |-> now, resolvers |-> {},
                          aborted |-> FALSE, used |-> TRUE]]
          /\ pendingRequests' = [pendingRequests EXCEPT ![k] = c]
          /\ concurrentRequests' = concurrentRequests + 1
          /\ call' = [call EXCEPT ![c] = [cl EXCEPT !.st = "leading"]]

\* execute(key, requestFn, {skipDedup}) up to its first suspension point:
\* what it does to the deduplicator
ExecuteCall(c, k, skip) ==
  /\ call[c].st = "idle"
  /\ (~enabled \/ skip) => k = "a"     \* line 65 returns before the key is read
  /\ LET cl == [IdleCall EXCEPT !.key = k, !.skip = skip,
                                !.peers = IF enabled /\ ~skip
                                          THEN LivePeers(k) ELSE {}]
     IN IF ~enabled \/ skip
        THEN /\ work' = [work EXCEPT ![c] = "running"]
             /\ call' = [call EXCEPT ![c] = [cl EXCEPT !.st = "direct"]]
             /\ UNCHANGED <<pendingRequests, execs, concurrentRequests>>
        ELSE IF concurrentRequests >= maxConcurrent
        THEN /\ call' = [call EXCEPT ![c] =
                          [cl EXCEPT !.st = "waitSlot", !.waited = TRUE]]
             /\ UNCHANGED <<pendingRequests, execs, concurrentRequests, work>>
        ELSE ExecuteBody(c, cl)
  /\ UNCHANGED <<batch, enabled, maxConcurrent>>

\* execute called by the application
Execute(c, k, skip) ==
  /\ \A d \in Callers : d < c => call[d].st # "idle"  \* callers are interchangeable
  /\ (\A d \in Callers : call[d].st = "idle") => k = "a" \* and so are keys
  /\ ExecuteCall(c, k, skip)
  /\ UNCHANGED <<now, authVars, cacheVars, retryVars, optVars>>

\* waitForSlot: the poll timer of a waiting caller fires and finds a slot;
\* the continuation of execute runs in the microtasks of that timer task,
\* before any other timer callback.
SlotFreeOffByOne == concurrentRequests <= maxConcurrent

SlotFree == concurrentRequests < maxConcurrent

CheckSlot(c) ==
  /\ call[c].st = "waitSlot"
  /\ SlotFree
  /\ ExecuteBody(c, call[c])
  /\ UNCHANGED <<batch, enabled, maxConcurrent, now, authVars, cacheVars, retryVars, optVars>>

\* executeWithMetrics: what the promise of the pending request settles with
\* when requestFn resolves (ok) or rejects
Outcome(c, ok) ==
  IF ok THEN <<"val", c>>
  ELSE IF execs[c].aborted THEN <<"cancelled", c>>
  ELSE <<"err", c>>

Settled(cl, out) ==
  [cl EXCEPT !.st = IF out[1] = "val" THEN "resolved" ELSE "rejected",
             !.result = out, !.waited = FALSE]

DeletedNothing(pending, k) == pending

\* execute, line 111: this.pendingRequests.delete(key)
Deleted(pending, k) == [pending EXCEPT ![k] = NoExec]

ReleasedOnSuccess(n, ok) == IF ok THEN n - 1 ELSE n

\* execute, lines 110-113: the finally block, this.stats.concurrentRequests--
Released(n, ok) == n - 1

GroupLeaderOnly(c) == {c}

\* the members of the pending request led by c
Group(c) == {c} \cup execs[c].resolvers

\* execute, lines 99-113: requestFn's promise settles and the leader resumes
\* after `await promise` in the microtasks of the same task
LeaderFinish(c, ok) ==
  /\ call[c].st = "leading"
  /\ work[c] = "running"
  /\ work' = [work EXCEPT ![c] = IF ok THEN "ok" ELSE "err"]
  /\ call' = [d \in Callers |->
                IF d \in Group(c) THEN Settled(call[d], Outcome(c, ok))
                ELSE call[d]]
  /\ pendingRequests' = Deleted(pendingRequests, execs[c].key)
  /\ concurrentRequests' = Released(concurrentRequests, ok)
  \* the timestamp of a settled request is never read again
  /\ execs' = [execs EXCEPT ![c].timestamp = 0]
  /\ UNCHANGED <<batch, enabled, maxConcurrent, now, authVars, cacheVars, retryVars, optVars>>

\* execute, line 65: with deduplication off the caller gets requestFn's promise
DirectFinish(c, ok) ==
  /\ call[c].st = "direct"
  /\ work[c] = "running"
  /\ work' = [work EXCEPT ![c] = IF ok THEN "ok" ELSE "err"]
  /\ call' = [call EXCEPT ![c] =
                Settled(@, IF ok THEN <<"val", c>> ELSE <<"err", c>>)]
  /\ UNCHANGED <<batch, enabled, maxConcurrent, pendingRequests, execs,
                 concurrentRequests, now, authVars, cacheVars, retryVars, optVars>>

\* cancel(key)
Cancel(k) ==
  /\ pendingRequests[k] # NoExec
  /\ execs' = [execs EXCEPT ![pendingRequests[k]].aborted = TRUE]
  /\ pendingRequests' = [pendingRequests EXCEPT ![k] = NoExec]
  /\ UNCHANGED <<batch, enabled, maxConcurrent, concurrentRequests, call, work,
                 now, authVars, cacheVars, retryVars, optVars>>

\* clear()
Clear ==
  /\ \E k \in DOMAIN pendingRequests : pendingRequests[k] # NoExec
  /\ execs' = [c \in Callers |->
                 IF \E k \in DOMAIN pendingRequests : pendingRequests[k] = c
                 THEN [execs[c] EXCEPT !.aborted = TRUE] ELSE execs[c]]
  /\ pendingRequests' = [k \in DOMAIN pendingRequests |-> NoExec]
  \* lines 183-188: the queued batches are dropped, the timer is cleared
  /\ batch' = [batch EXCEPT !.queue = [k \in DOMAIN batch.queue |-> <<>>],
                            !.timer = NoTimer]
  /\ UNCHANGED <<enabled, maxConcurrent, concurrentRequests, call, work,
                 now, authVars, cacheVars, retryVars, optVars>>

\* the clock advances
Tick ==
  /\ now < MaxTime
  /\ now' = now + 1

TickDedup == Tick /\ UNCHANGED <<dedupVars, authVars, cacheVars, retryVars, optVars>>

\* options.skipDedup of a call; it changes nothing when deduplication is off
SkipChoices == IF enabled THEN BOOLEAN ELSE {FALSE}

NextDedup ==
  \/ \E c \in Callers, k \in Keys, skip \in SkipChoices : Execute(c, k, skip)
  \/ \E c \in Callers : CheckSlot(c)
  \/ \E c \in Callers, ok \in BOOLEAN : LeaderFinish(c, ok)
  \/ \E c \in Callers, ok \in BOOLEAN : DirectFinish(c, ok)
  \/ \E k \in Keys : Cancel(k)
  \/ Clear
  \/ TickDedup

InitSpecDedup == now = 0 /\ InitDedup /\ InitAuthIdle /\ InitCacheIdle
                 /\ InitRetryIdle /\ InitOptIdle
SpecDedup == InitSpecDedup /\ [][NextDedup]_vars

\* scheduleBatchProcessing(batchKey), lines 247-254: one timer at a time,
\* whose callback processes the batchKey of the call that started it
scheduleBatchProcessing(bt, k) ==
  IF bt.timer # NoTimer THEN bt ELSE [bt EXCEPT !.timer = k]

\* executeBatch(batchKey, url, options), lines 119-145
ExecuteBatch(b, k) ==
  /\ batch.calls[b] = "idle"
  /\ \A d \in BatchCalls : d < b => batch.calls[d] # "idle"
  /\ batch' = scheduleBatchProcessing(
                [batch EXCEPT !.queue[k] = Append(@, b),
                              !.calls[b] = "queued"], k)
  /\ UNCHANGED <<enabled, maxConcurrent, pendingRequests, execs,
                 concurrentRequests, call, work, now, authVars, cacheVars,
                 retryVars, optVars>>

\* the 50 ms timer fires, lines 250-253: processBatch(batchKey) takes the
\* queue of that key (lines 260-263; all calls have priority 'normal', the
\* sort keeps their order) and starts the fetch of its first request
BatchTimerFires ==
  /\ batch.timer # NoTimer
  /\ LET k == batch.timer
         q == batch.queue[k]
     IN batch' = IF q = <<>>
                 THEN [batch EXCEPT !.timer = NoTimer]
                 ELSE [batch EXCEPT !.timer = NoTimer, !.queue[k] = <<>>,
                                    !.runs = @ \cup {q}]
  /\ UNCHANGED <<enabled, maxConcurrent, pendingRequests, execs,
                 concurrentRequests, call, work, now, authVars, cacheVars,
                 retryVars, optVars>>

\* processBatch, lines 273-282: the fetch of a request settles, the call is
\* resolved or rejected, and the fetch of the next request starts
FetchSettles(run, ok) ==
  /\ run \in batch.runs
  /\ batch' = [batch EXCEPT
                 !.calls[Head(run)] = IF ok THEN "resolved" ELSE "rejected",
                 !.runs = (@ \ {run}) \cup
                          (IF Len(run) > 1 THEN {Tail(run)} ELSE {})]
  /\ UNCHANGED <<enabled, maxConcurrent, pendingRequests, execs,
                 concurrentRequests, call, work, now, authVars, cacheVars,
                 retryVars, optVars>>

NextBatch ==
  \/ \E b \in BatchCalls, k \in BatchKeys : ExecuteBatch(b, k)
  \/ BatchTimerFires
  \/ \E run \in batch.runs, ok \in BOOLEAN : FetchSettles(run, ok)

InitSpecBatch ==
  /\ now = 0
  /\ enabled = TRUE /\ maxConcurrent = 1 /\ InitDedupOn(Keys, NoBatch)
  /\ InitAuthIdle /\ InitCacheIdle /\ InitRetryIdle /\ InitOptIdle
SpecBatch == InitSpecBatch /\ [][NextBatch]_vars

\* the batch timer fires and every fetch settles
SpecBatchLive ==
  /\ SpecBatch
  /\ WF_vars(BatchTimerFires)
  /\ WF_vars(\E run \in batch.runs, ok \in BOOLEAN : FetchSettles(run, ok))

\* the application, whose call has settled, is free to call execute again:
\* callers keep arriving
Return(c) ==
  /\ call[c].st \in {"resolved", "rejected"}
  /\ call' = [call EXCEPT ![c] = IdleCall]
  /\ work' = [work EXCEPT ![c] = "none"]
  /\ execs' = [execs EXCEPT ![c] = FreshExec]
  /\ UNCHANGED <<batch, enabled, maxConcurrent, pendingRequests,
                 concurrentRequests, now, authVars, cacheVars, retryVars,
                 optVars>>

\* the callers that keep arriving
NumArrivals == 2
Arrivals == 1..NumArrivals

NextDedupLive ==
  \/ \E c \in Arrivals, k \in Keys, skip \in SkipChoices : Execute(c, k, skip)
  \/ \E c \in Arrivals : CheckSlot(c)
  \/ \E c \in Arrivals, ok \in BOOLEAN : LeaderFinish(c, ok)
  \/ \E c \in Arrivals, ok \in BOOLEAN : DirectFinish(c, ok)
  \/ \E c \in Arrivals : Return(c)
  \/ \E k \in Keys : Cancel(k)
  \/ Clear
  \/ TickDedup

\* every work function settles, and the poll timer of waitForSlot keeps
\* firing: a caller for which a slot stays free is admitted
SpecDedupLive ==
  /\ InitSpecDedup
  /\ [][NextDedupLive]_vars
  /\ \A c \in Arrivals :
       /\ WF_vars(\E ok \in BOOLEAN : LeaderFinish(c, ok))
       /\ WF_vars(\E ok \in BOOLEAN : DirectFinish(c, ok))
       /\ WF_vars(CheckSlot(c))

\* ------------------------------------------------------------------------
\* Properties of the RequestDeduplicator (checked under SpecDedup)
\* ------------------------------------------------------------------------
\* executions started on the deduplicating path whose work has not settled
Active == {c \in Callers : call[c].st = "leading" /\ work[c] = "running"}
ActiveFor(k) == {c \in Active : execs[c].key = k}
\* every requestFn invocation that has not settled, bypass calls included
Running == {c \in Callers : work[c] = "running"}

\* C1: a call issued (deduplication on, no skipDedup) while the work of an
\* earlier call for the same key is running, within windowMs of its start
\* and not cancelled, never invokes the work itself and resolves with the
\* value the earlier call resolves with.
C1_DedupCollapsing ==
  \A c2 \in Callers : \A c1 \in call[c2].peers :
    (enabled /\ ~call[c2].skip /\ ~execs[c1].aborted) =>
      /\ work[c2] = "none"
      /\ (call[c1].st = "resolved" /\ call[c2].st = "resolved") =>
            call[c2].result = call[c1].result

\* C2: for each key at most one execution started on the deduplicating
\* path is active (started, work not settled).
C2_OneActivePerKey ==
  \A k \in Keys : Cardinality(ActiveFor(k)) <= 1

\* C3 (as stated): the number of work executions started via execute and not
\* yet settled never exceeds maxConcurrent.
C3_CeilingAllExecutions == Cardinality(Running) <= maxConcurrent

\* a deduplicating call starts its work in this step
StartsWork(c) ==
  /\ work[c] = "none" /\ work'[c] = "running"
  /\ call'[c].st = "leading"

\* C3 (amended): with deduplication enabled and skipDedup not requested, the
\* number of active executions never exceeds maxConcurrent, and a call starts
\* its work only in a step that begins with a free slot, also for a caller
\* that waited for the slot together with other callers.
C3_Ceiling ==
  /\ [](Cardinality(Active) <= maxConcurrent)
  /\ [][\A c \in Callers : StartsWork(c) => concurrentRequests < maxConcurrent]_vars

\* a caller that waited for a slot has been admitted while another caller is
\* still waiting and the ceiling is reached again
C3_Witness ==
  \E c \in Callers, d \in Callers :
    /\ call[c].waited /\ call[c].st = "leading" /\ work[c] = "running"
    /\ call[d].st = "waitSlot"
    /\ Cardinality(Active) = maxConcurrent

\* executions of the deduplicating path whose work rejected
Failed == {c \in Callers : execs[c].used /\ work[c] = "err"}

\* C4 (as stated): when the work of a group rejects with error E, the leader
\* and every attached waiter reject with E, and no waiter invoked the work.
C4_ErrorFanOutAlwaysE ==
  \A c \in Failed : \A d \in {c} \cup execs[c].resolvers :
    /\ call[d].st = "rejected"
    /\ call[d].result = <<"err", c>>
    /\ d # c => work[d] = "none"

\* C4 (amended): when the work of a group rejects with error E, the leader and
\* every attached waiter reject with one and the same error, and no waiter
\* invoked the work; the error is E unless cancel(key) or clear() hit the
\* pending entry before the work rejected, in which case it is the
\* 'Request was cancelled' error created for that execution.
C4_ErrorFanOut ==
  \A c \in Failed : \A d \in {c} \cup execs[c].resolvers :
    /\ call[d].st = "rejected"
    /\ call[d].result = IF execs[c].aborted THEN <<"cancelled", c>>
                        ELSE <<"err", c>>
    /\ d # c => work[d] = "none"

\* a group with an attached waiter whose work rejected without being cancelled
C4_Witness ==
  \E c \in Failed :
    /\ ~execs[c].aborted
    /\ execs[c].resolvers # {}
    /\ \A d \in execs[c].resolvers : call[d].st = "rejected"

\* C33 (as stated): concurrentRequests equals the number of executions
\* started through execute and not yet settled.
C33_CountsAllExecutions == concurrentRequests = Cardinality(Running)

\* C33 (amended): concurrentRequests equals the number of executions started
\* on the deduplicating path and not yet settled; it is never negative and
\* it is 0 whenever no work is in flight.
C33_ConcurrentCount ==
  /\ concurrentRequests = Cardinality(Active)
  /\ concurrentRequests >= 0
  /\ Running = {} => concurrentRequests = 0

\* two executions on distinct keys are counted while a third one, started
\* with skipDedup, runs uncounted
C33_Witness ==
  /\ concurrentRequests = 2
  /\ Cardinality({execs[c].key : c \in Active}) = 2
  /\ Cardinality(Running) = 3

\* an execute call that has not settled
Unsettled(c) == call[c].st \in {"waitSlot", "attached", "leading", "direct"}

\* C34: every execute call eventually settles.
C34_EveryCallSettles ==
  \A c \in Arrivals : Unsettled(c) ~> ~Unsettled(c)

\* C35: an execution that settles removes only the pending entry it
\* registered itself: the entry of another execution, registered for the
\* same key after cancel, clear or the expiry of the window, stays.
C35_RemovesOwnEntryOnly ==
  [][\A c \in Callers, k \in Keys :
       (work[c] = "running" /\ work'[c] # "running"
          /\ pendingRequests[k] # NoExec /\ pendingRequests[k] # c) =>
         pendingRequests'[k] = pendingRequests[k]]_vars

\* C36: every executeBatch call eventually settles, for every batchKey.
C36_BatchCallsSettle ==
  \A b \in BatchCalls :
    batch.calls[b] = "queued" ~> batch.calls[b] \in {"resolved", "rejected"}

\* C21: when the work of an execution whose pending entry was cancelled
\* settles, with a value or with an error, the caller of that execution and
\* every waiter attached to it reject with the 'Request was cancelled' error
\* of that execution.
C21_CancelRejects ==
  \A c \in Callers :
    (execs[c].used /\ execs[c].aborted /\ work[c] \in {"ok", "err"}) =>
      \A d \in {c} \cup execs[c].resolvers :
        call[d].st = "rejected" /\ call[d].result = <<"cancelled", c>>

\* a deduplicating call whose key no other call has used
AloneOnKey(c) ==
  /\ enabled /\ call[c].st # "idle" /\ ~call[c].skip
  /\ \A d \in Callers \ {c} :
       call[d].st # "idle" => call[d].key # call[c].key

\* C22: a deduplicating call whose key no other call uses never attaches to
\* the execution of another key: it starts its own work (after waiting for a
\* slot if the ceiling is reached), and it settles with the outcome of its
\* own work: its value, its error, or the cancellation of its own execution.
C22_KeyIsolation ==
  \A c \in Callers :
    AloneOnKey(c) =>
      /\ call[c].st \in {"waitSlot", "leading", "resolved", "rejected"}
      /\ call[c].st = "waitSlot" => work[c] = "none"
      /\ call[c].st = "leading" => work[c] = "running" /\ execs[c].resolvers = {}
      /\ call[c].st = "resolved" =>
           work[c] = "ok" /\ call[c].result = <<"val", c>>
      /\ call[c].st = "rejected" =>
           /\ work[c] = "err"
           /\ call[c].result = IF execs[c].aborted THEN <<"cancelled", c>>
                                ELSE <<"err", c>>

\* two calls with different keys run their own work at the same time, below
\* the ceiling
C22_Witness ==
  \E c \in Callers, d \in Callers :
    /\ AloneOnKey(c) /\ AloneOnKey(d)
    /\ call[c].key = "a" /\ call[d].key = "b"
    /\ call[c].st = "leading" /\ call[d].st = "leading"
    /\ ~call[c].waited /\ ~call[d].waited
    /\ concurrentRequests = 2

\* the pending entry of key k is live: started within windowMs
LivePending(k) ==
  /\ pendingRequests[k] # NoExec
  /\ isWithinWindow(execs[pendingRequests[k]].timestamp)

\* C29: a call whose key has a live pending entry at the moment of the call
\* does not start waiting for a concurrency slot.
C29_AttachWithoutSlot ==
  [][\A c \in Callers :
       (call[c].st = "idle" /\ call'[c].st = "waitSlot") =>
         ~LivePending(call'[c].key)]_vars

\* C30: no pending entry outlives the work it was created for, and no waiter
\* stays attached to work that has settled: a call made after the settlement
\* finds no entry of the settled work to attach to.
C30_EntryRemovedOnSettle ==
  /\ \A k \in Keys :
       pendingRequests[k] # NoExec => work[pendingRequests[k]] = "running"
  /\ \A c \in Callers :
       call[c].st = "attached" =>
         \E d \in Callers : c \in execs[d].resolvers /\ work[d] = "running"

\* at time 0 the work of the first call has settled without having been
\* cancelled, and the second call, for the same key, runs the work again
C30_Witness ==
  /\ now = 0
  /\ call[1].st \in {"resolved", "rejected"} /\ execs[1].used
  /\ ~execs[1].aborted
  /\ call[2].st = "leading" /\ work[2] = "running"
  /\ call[2].key = call[1].key
  /\ call[3].st = "idle"

\* ------------------------------------------------------------------------
\* WhoopOAuthClient and the request pipeline of WhoopHttpClient
\* ------------------------------------------------------------------------
InitAuth ==
  /\ tokens \in {NoTokens, Tok(0, TRUE, ExpiresSoon), Tok(0, TRUE, ExpiresLater),
                 Tok(0, FALSE, ExpiresSoon)}
  /\ refreshPromise = 0
  /\ refreshCalls = 0
  /\ hasOAuth \in BOOLEAN
  /\ hasCallback \in BOOLEAN
  /\ maxAttempts \in 1..MaxRetries
  /\ gv = [p \in Procs |-> IdleGv]
  /\ proc = [p \in Requests |-> IdleProc]

\* isTokenExpired(tokens)
isTokenExpired(t) ==
  IF ~t.present THEN TRUE
  ELSE IF t.expires_in = 0 THEN FALSE
  ELSE now >= now + t.expires_in * 1000 - BufferMs

RefreshEntryNoCoalescing ==
  IF ~(tokens.present /\ tokens.has_refresh) THEN "throw" ELSE "start"

\* refreshAccessToken() up to its await: it throws, returns the refresh in
\* flight, or starts performTokenRefresh
RefreshEntry ==
  IF ~(tokens.present /\ tokens.has_refresh) THEN "throw"
  ELSE IF refreshPromise # 0 THEN "join"
  ELSE "start"

\* the effect of that call on the client: a started refresh is one HTTP call
RefreshEffect(entry) ==
  IF entry = "start"
  THEN /\ refreshCalls' = refreshCalls + 1
       /\ refreshPromise' = refreshCalls + 1
  ELSE UNCHANGED <<refreshCalls, refreshPromise>>

\* the refresh a caller of refreshAccessToken awaits
Awaited(entry) ==
  IF entry = "start" THEN refreshCalls + 1
  ELSE IF entry = "join" THEN refreshPromise
  ELSE 0

\* ErrorFactory.fromHttpStatus
fromHttpStatus(status) ==
  IF status = 400 THEN Res("WhoopValidationError", 400, "", 0)
  ELSE IF status = 401 THEN Res("WhoopAuthError", 401, "", 0)
  ELSE IF status = 404 THEN Res("WhoopNotFoundError", 404, "", 0)
  ELSE IF status = 429 THEN Res("WhoopRateLimitError", 429, "", 0)
  ELSE Res("WhoopAPIError", status, "", 0)

\* performRequest, lines 592-614: the catch around fetch and handleResponse
CatchAll(error, aborted) ==
  IF aborted THEN Res("WhoopTimeoutError", 0, "", 0)
  ELSE Res("WhoopNetworkError", 0, error.type, 0)

\* getRetryInfo(error).canRetry
canRetry(error) ==
  IF error.type = "WhoopRateLimitError" THEN TRUE
  ELSE IF error.type \in {"WhoopAPIError", "WhoopAuthError",
                          "WhoopNotFoundError", "WhoopValidationError"}
  THEN error.status >= 500
  ELSE error.type \in {"WhoopNetworkError", "WhoopTimeoutError"}

\* getValidAccessToken(), called by the application
GetValidAccessToken(p) ==
  /\ gv[p].pc = "idle"
  /\ \A q \in Procs : q < p => gv[q].pc # "idle"
  /\ LET me == [IdleGv EXCEPT !.calls0 = refreshCalls]
     IN IF ~tokens.present
        THEN /\ gv' = [gv EXCEPT ![p] =
                   [me EXCEPT !.pc = "done", !.calls1 = refreshCalls,
                      !.result = Res("WhoopAuthError", 401, "no tokens", 0)]]
             /\ UNCHANGED <<refreshCalls, refreshPromise>>
        ELSE IF isTokenExpired(tokens)
        THEN LET entry == RefreshEntry
             IN /\ RefreshEffect(entry)
                /\ gv' = [gv EXCEPT ![p] =
                     IF entry = "throw"
                     THEN [me EXCEPT !.pc = "done", !.calls1 = refreshCalls,
                             !.result = Res("WhoopAuthError", 401,
                                            "no refresh token", 0)]
                     ELSE [me EXCEPT !.pc = "gvWait",
                                     !.joined = refreshPromise,
                                     !.rid = Awaited(entry)]]
        ELSE /\ gv' = [gv EXCEPT ![p] =
                   [me EXCEPT !.pc = "done", !.calls1 = refreshCalls,
                      !.result = Res("token", 0, "", tokens.access_token)]]
             /\ UNCHANGED <<refreshCalls, refreshPromise>>
  /\ UNCHANGED <<tokens, hasOAuth, hasCallback, maxAttempts, proc,
                 now, dedupVars, cacheVars, retryVars, optVars>>

\* combineSignals(options.signal, createTimeoutSignal(options.timeout))
SignalAborted(me) == me.sigAborted \/ me.callerAborted

\* withRetry, lines 42-65, after performRequest's catch replaced the error
Rethrown(me, error) ==
  LET thrown == CatchAll(error, SignalAborted(me))
  IN IF me.attempt = maxAttempts \/ ~canRetry(thrown)
     THEN [me EXCEPT !.pc = "done", !.result = thrown]
     ELSE [me EXCEPT !.pc = "sleep", !.result = thrown]

\* performRequest up to fetch: getAccessToken swallows every failure of
\* getValidAccessToken; the HTTP call is sent with or without a bearer token.
\* fetch with a signal that is already aborted rejects without a call
SendWith(me, token) ==
  IF me.callerAborted
  THEN Rethrown([me EXCEPT !.bearer = token, !.answered = 0,
                           !.transportFail = FALSE],
                Res("AbortError", 0, "", 0))
  ELSE [me EXCEPT !.pc = "fetch", !.bearer = token, !.apiCalls = @ + 1,
                  !.retried4xx = @ \/ me.answered \in {400, 401, 404},
                  !.answered = 0, !.transportFail = FALSE]

\* one attempt of withRetry starts: performRequest, lines 483-568
AttemptStart(p, me) ==
  IF ~hasOAuth \/ ~tokens.present
  THEN /\ proc' = [proc EXCEPT ![p] = SendWith(me, -1)]
       /\ UNCHANGED <<refreshCalls, refreshPromise>>
  ELSE IF isTokenExpired(tokens)
  THEN LET entry == RefreshEntry
       IN /\ RefreshEffect(entry)
          /\ proc' = [proc EXCEPT ![p] =
               IF entry = "throw" THEN SendWith(me, -1)
               ELSE [me EXCEPT !.pc = "tokWait"]]
  ELSE /\ proc' = [proc EXCEPT ![p] = SendWith(me, tokens.access_token)]
       /\ UNCHANGED <<refreshCalls, refreshPromise>>

\* the error of withRetry, line 37
RequestAborted == Res("Error", 0, "Request aborted", 0)

\* get(path, options) / request(method, path, options): every call of the
\* model is the same GET; withRetry checks the caller's signal and makes
\* the first attempt
Request(p) ==
  /\ proc[p].pc = "idle"
  /\ \A q \in DOMAIN proc : q < p => proc[q].pc # "idle"
  /\ LET me == [proc[p] EXCEPT
                  !.attempt = 1,
                  !.afterData = \E q \in DOMAIN proc :
                                  /\ proc[q].pc = "done"
                                  /\ proc[q].result.type = "data",
                  !.during = \E q \in DOMAIN proc :
                               proc[q].pc \notin {"idle", "done"}]
     IN IF me.callerAborted
        THEN /\ proc' = [proc EXCEPT ![p] =
                   [me EXCEPT !.pc = "done", !.result = RequestAborted]]
             /\ UNCHANGED <<refreshCalls, refreshPromise>>
        ELSE AttemptStart(p, me)
  /\ UNCHANGED <<tokens, hasOAuth, hasCallback, maxAttempts, gv,
                 now, dedupVars, cacheVars, retryVars, optVars>>

\* the API answers the HTTP call: handleResponse, lines 620-695
Response(p, status) ==
  /\ proc[p].pc = "fetch"
  /\ LET me == [proc[p] EXCEPT !.answered = status]
         error == fromHttpStatus(status)
     IN IF status = 200
        THEN /\ proc' = [proc EXCEPT ![p] =
                   [me EXCEPT !.pc = "done",
                              !.result = Res("data", 200, "", 0)]]
             /\ UNCHANGED <<tokens, refreshCalls, refreshPromise>>
        ELSE IF error.type = "WhoopAuthError" /\ hasOAuth /\ error.status = 401
        THEN LET entry == RefreshEntry
                 me1 == [me EXCEPT !.saw401 = TRUE, !.hRefreshes = @ + 1]
             IN /\ RefreshEffect(entry)
                /\ IF entry = "throw"
                   THEN \* catch (refreshError): clearTokens(); throw error
                        /\ tokens' = NoTokens
                        /\ proc' = [proc EXCEPT ![p] =
                             Rethrown(
                               [me1 EXCEPT !.rres = "throw"], error)]
                   ELSE /\ proc' = [proc EXCEPT ![p] =
                             [me1 EXCEPT !.pc = "hWait"]]
                        /\ UNCHANGED tokens
        ELSE /\ proc' = [proc EXCEPT ![p] = Rethrown(me, error)]
             /\ UNCHANGED <<tokens, refreshCalls, refreshPromise>>
  /\ UNCHANGED <<hasOAuth, hasCallback, maxAttempts, gv,
                 now, dedupVars, cacheVars, retryVars, optVars>>

\* fetch rejects (transport failure)
NetworkFailure(p) ==
  /\ proc[p].pc = "fetch"
  /\ proc' = [proc EXCEPT ![p] =
                Rethrown([@ EXCEPT !.transportFail = TRUE],
                         Res("TypeError", 0, "", 0))]
  /\ UNCHANGED <<tokens, refreshCalls, refreshPromise, hasOAuth, hasCallback,
                 maxAttempts, gv, now, dedupVars, cacheVars, retryVars, optVars>>

\* the timer of createTimeoutSignal fires during an attempt; a fetch in
\* flight rejects at once
Timeout(p) ==
  /\ proc[p].pc \in {"fetch", "hWait", "hResume"}
  /\ ~SignalAborted(proc[p])
  /\ LET me == [proc[p] EXCEPT !.sigAborted = TRUE]
     IN proc' = [proc EXCEPT ![p] =
                   IF me.pc = "fetch"
                   THEN Rethrown([me EXCEPT !.inFlightAbort = TRUE],
                                 Res("AbortError", 0, "", 0))
                   ELSE me]
  /\ UNCHANGED <<tokens, refreshCalls, refreshPromise, hasOAuth, hasCallback,
                 maxAttempts, gv, now, dedupVars, cacheVars, retryVars, optVars>>

SlotKeptOnFailure(ok) == IF ok THEN 0 ELSE refreshPromise

\* refreshAccessToken, lines 146-148: finally { this.refreshPromise = undefined }
SlotAfterSettle(ok) == 0

ObtainedOrStale(ok) == IF ok THEN refreshPromise ELSE tokens.access_token
\* getAccessToken after its await: the token of the refresh, or undefined
\* (no bearer, -1) when getValidAccessToken threw
Obtained(ok) == IF ok THEN refreshPromise ELSE -1

\* the token endpoint answers: performTokenRefresh settles, the leader of
\* refreshAccessToken stores the tokens and clears refreshPromise, and every
\* caller awaiting that promise resumes
RefreshSettle(ok, expiresIn) ==
  /\ refreshPromise # 0
  /\ tokens' = IF ok THEN Tok(refreshPromise, TRUE, expiresIn) ELSE tokens
  /\ refreshPromise' = SlotAfterSettle(ok)
  /\ gv' = [p \in Procs |->
       LET me == gv[p]
       IN IF me.pc = "gvWait"
          THEN [me EXCEPT !.pc = "done", !.calls1 = refreshCalls,
                  !.result = IF ok THEN Res("token", 0, "", refreshPromise)
                             ELSE Res("WhoopAuthError", 401, "refresh", 0)]
          ELSE me]
  /\ proc' = [p \in DOMAIN proc |->
       LET me == proc[p]
       IN IF me.pc = "tokWait"
          THEN SendWith(me, Obtained(ok))
          ELSE IF me.pc = "hWait"
          THEN [me EXCEPT !.pc = "hResume",
                          !.rres = IF ok THEN "ok" ELSE "fail"]
          ELSE me]
  /\ UNCHANGED <<refreshCalls, hasOAuth, hasCallback, maxAttempts,
                 now, dedupVars, cacheVars, retryVars, optVars>>

\* handleResponse, lines 664-690, after `await refreshAccessToken()`
HandlerResume(p, cbThrows) ==
  /\ proc[p].pc = "hResume"
  /\ cbThrows => (hasCallback /\ proc[p].rres = "ok")
  /\ LET me == proc[p]
         error == fromHttpStatus(401)
     IN IF me.rres = "fail" \/ cbThrows
        THEN /\ tokens' = NoTokens
             /\ proc' = [proc EXCEPT ![p] =
                  Rethrown([me EXCEPT !.clearedAfterOk = cbThrows],
                                   error)]
        ELSE /\ proc' = [proc EXCEPT ![p] = Rethrown(me, error)]
             /\ UNCHANGED tokens
  /\ UNCHANGED <<refreshCalls, refreshPromise, hasOAuth, hasCallback,
                 maxAttempts, gv, now, dedupVars, cacheVars, retryVars, optVars>>

\* withRetry: the backoff sleep ends; the loop head throws if the caller's
\* signal is aborted, otherwise the next attempt starts
RetryWake(p) ==
  /\ proc[p].pc = "sleep"
  /\ IF proc[p].callerAborted
     THEN /\ proc' = [proc EXCEPT ![p] =
                [@ EXCEPT !.pc = "done", !.result = RequestAborted]]
          /\ UNCHANGED <<refreshCalls, refreshPromise>>
     ELSE AttemptStart(p, [proc[p] EXCEPT !.attempt = @ + 1,
                                          !.sigAborted = FALSE,
                                          !.inFlightAbort = FALSE,
                                          !.rres = "none"])
  /\ UNCHANGED <<tokens, hasOAuth, hasCallback, maxAttempts, gv,
                 now, dedupVars, cacheVars, retryVars, optVars>>

\* the caller aborts the signal it passed in options.signal; a fetch in
\* flight rejects at once
CallerAbort(p) ==
  /\ proc[p].pc # "done"
  /\ ~proc[p].callerAborted
  /\ LET me == [proc[p] EXCEPT !.callerAborted = TRUE]
     IN proc' = [proc EXCEPT ![p] =
                   IF me.pc = "fetch"
                   THEN Rethrown([me EXCEPT !.inFlightAbort = TRUE],
                                 Res("AbortError", 0, "", 0))
                   ELSE me]
  /\ UNCHANGED <<tokens, refreshCalls, refreshPromise, hasOAuth, hasCallback,
                 maxAttempts, gv, now, dedupVars, cacheVars, retryVars, optVars>>

Statuses == {200, 400, 401, 404, 429, 500}

\* setTokens(tokens), called by the application
SetTokens(hasRefresh, expiresIn) ==
  /\ tokens' = Tok(0, hasRefresh, expiresIn)
  /\ tokens' # tokens
  /\ UNCHANGED <<refreshCalls, refreshPromise, hasOAuth, hasCallback,
                 maxAttempts, gv, proc, now, dedupVars, cacheVars, retryVars, optVars>>

\* clearTokens(), called by the application
ClearTokens ==
  /\ tokens # NoTokens
  /\ tokens' = NoTokens
  /\ UNCHANGED <<refreshCalls, refreshPromise, hasOAuth, hasCallback,
                 maxAttempts, gv, proc, now, dedupVars, cacheVars, retryVars, optVars>>

InitOAuth ==
  /\ tokens \in {NoTokens, Tok(0, TRUE, ExpiresSoon), Tok(0, TRUE, ExpiresLater),
                 Tok(0, FALSE, ExpiresSoon)}
  /\ refreshPromise = 0
  /\ refreshCalls = 0
  /\ hasOAuth = TRUE
  /\ hasCallback = FALSE
  /\ maxAttempts = 1
  /\ gv = [p \in Procs |-> IdleGv]
  /\ proc = [p \in Requests |-> IdleProc]

\* time passes, ClockStepMs milliseconds at a time
TickOAuth ==
  /\ now < MaxOAuthTicks * ClockStepMs
  /\ now' = now + ClockStepMs
  /\ UNCHANGED <<authVars, dedupVars, cacheVars, retryVars, optVars>>

NextOAuth ==
  \/ TickOAuth
  \/ \E p \in Procs : GetValidAccessToken(p)
  \/ \E r \in BOOLEAN, e \in {ExpiresSoon, ExpiresLater} : SetTokens(r, e)
  \/ ClearTokens
  \/ \E ok \in BOOLEAN, e \in {ExpiresSoon, ExpiresLater} : RefreshSettle(ok, e)

NextPipeline ==
  \/ \E p \in Requests : Request(p)
  \/ \E p \in Requests, status \in Statuses : Response(p, status)
  \/ \E p \in Requests : NetworkFailure(p)
  \/ \E p \in Requests : Timeout(p)
  \/ \E p \in Requests : CallerAbort(p)
  \/ \E ok \in BOOLEAN, e \in {ExpiresSoon, ExpiresLater} : RefreshSettle(ok, e)
  \/ \E p \in Requests, cbThrows \in BOOLEAN : HandlerResume(p, cbThrows)
  \/ \E p \in Requests : RetryWake(p)

InitSpecOAuth == now = 0 /\ InitDedupIdle /\ InitOAuth /\ InitCacheIdle
                 /\ InitRetryIdle /\ InitOptIdle
SpecOAuth == InitSpecOAuth /\ [][NextOAuth]_vars
InitSpecPipeline == now = 0 /\ InitDedupIdle /\ InitAuth /\ InitCacheIdle
                 /\ InitRetryIdle /\ InitOptIdle
SpecPipeline == InitSpecPipeline /\ [][NextPipeline]_vars

\* the request pipeline of a client with an OAuth client whose application
\* also stores and clears tokens while its first request is in flight; the
\* API answers with data, with 401 (the handler refreshes) or with 500
\* (retried)
AttachStatuses == {200, 401, 500}
AttachRequests == {1}

NextAttach ==
  \/ \E p \in AttachRequests : Request(p)
  \/ \E p \in AttachRequests, status \in AttachStatuses : Response(p, status)
  \/ \E p \in AttachRequests : CallerAbort(p)
  \/ \E ok \in BOOLEAN, e \in {ExpiresSoon, ExpiresLater} : RefreshSettle(ok, e)
  \/ \E p \in AttachRequests, cbThrows \in BOOLEAN : HandlerResume(p, cbThrows)
  \/ \E p \in AttachRequests : RetryWake(p)
  \/ \E r \in BOOLEAN, e \in {ExpiresSoon, ExpiresLater} : SetTokens(r, e)
  \/ ClearTokens

InitSpecAttach == InitSpecPipeline /\ hasOAuth
SpecAttach == InitSpecAttach /\ [][NextAttach]_vars

\* a WhoopHttpClient without OAuth client, as the endpoints use it: NumGets
\* calls of get() with the same path and query
InitGet ==
  /\ tokens = NoTokens
  /\ refreshPromise = 0
  /\ refreshCalls = 0
  /\ hasOAuth = FALSE
  /\ hasCallback = FALSE
  /\ maxAttempts \in 1..MaxRetries
  /\ gv = [p \in Procs |-> IdleGv]
  /\ proc = [p \in Gets |-> IdleProc]

NextGet ==
  \/ \E p \in Gets : Request(p)
  \/ \E p \in Gets, status \in Statuses : Response(p, status)
  \/ \E p \in Gets : NetworkFailure(p)
  \/ \E p \in Gets : Timeout(p)
  \/ \E p \in Gets : CallerAbort(p)
  \/ \E p \in Gets : RetryWake(p)

InitSpecGet == now = 0 /\ InitDedupIdle /\ InitGet /\ InitCacheIdle
                 /\ InitRetryIdle /\ InitOptIdle
SpecGet == InitSpecGet /\ [][NextGet]_vars

\* ------------------------------------------------------------------------
\* Properties of the token manager (SpecOAuth) and of the request pipeline
\* (SpecPipeline)
\* ------------------------------------------------------------------------
\* C5: a getValidAccessToken() call made on an expired token while a refresh
\* is in flight awaits that refresh: no further token-endpoint call is made
\* between the call and its return, and it returns the access token of that
\* refresh, the same one the caller that started the refresh receives; the
\* caller that started it made exactly one token-endpoint call.
C5_RefreshCoalescing ==
  /\ \A q \in Procs :
       gv[q].joined # 0 =>
         /\ gv[q].rid = gv[q].joined
         /\ gv[q].pc = "gvWait" => refreshCalls = gv[q].calls0
         /\ gv[q].pc = "done" =>
              /\ gv[q].calls1 = gv[q].calls0
              /\ gv[q].result.type = "token" =>
                   gv[q].result.token = gv[q].joined
  /\ \A p \in Procs :
       (gv[p].rid # 0 /\ gv[p].joined = 0 /\ gv[p].pc = "done") =>
         gv[p].calls1 = gv[p].calls0 + 1
  /\ \A p \in Procs, q \in Procs :
       (gv[p].pc = "done" /\ gv[q].pc = "done" /\ gv[p].rid # 0
        /\ gv[q].joined = gv[p].rid) => gv[q].result = gv[p].result

\* two calls on an expired token, the second made while the refresh of the
\* first was in flight, returned the token of the one refresh made
C5_Witness ==
  \E p \in Procs, q \in Procs :
    /\ p # q
    /\ gv[p].pc = "done" /\ gv[p].joined = 0 /\ gv[p].rid # 0
    /\ gv[q].pc = "done" /\ gv[q].joined = gv[p].rid
    /\ gv[p].result.type = "token" /\ gv[q].result = gv[p].result
    /\ refreshCalls = 1

\* C23: once no tokens are stored, tokens are stored again only by setTokens
\* (the tokens given to setTokens carry access token 0), also when a refresh
\* was in flight when they were cleared; and a getValidAccessToken() call
\* made while no tokens are stored fails at once with a WhoopAuthError.
C23_ClearedUntilSupplied ==
  /\ [][(~tokens.present /\ tokens'.present) => tokens'.access_token = 0]_vars
  /\ [][\A p \in Procs :
          (~tokens.present /\ gv[p].pc = "idle" /\ gv'[p].pc # "idle") =>
            (gv'[p].pc = "done" /\ gv'[p].result.type = "WhoopAuthError")]_vars

\* C28: the refresh recorded as in flight is the latest token-endpoint call
\* and has not settled; a token-endpoint call is started only when no refresh
\* is in flight; a getValidAccessToken() call on an expired token made when
\* no refresh is in flight starts a new token-endpoint call and awaits that
\* one, also after an earlier refresh failed.
C28_SlotClearedOnSettle ==
  /\ [](refreshPromise \in {0, refreshCalls})
  /\ [](\A p \in Procs :
          (gv[p].pc = "done" /\ gv[p].rid # 0) => gv[p].rid # refreshPromise)
  /\ [][refreshCalls' # refreshCalls =>
          (refreshPromise = 0 /\ refreshCalls' = refreshCalls + 1
           /\ refreshPromise' = refreshCalls')]_vars
  /\ [][\A p \in Procs :
          (gv[p].pc = "idle" /\ gv'[p].pc = "gvWait" /\ refreshPromise = 0) =>
            (refreshCalls' = refreshCalls + 1 /\ gv'[p].rid = refreshCalls')]_vars

\* a refresh failed, and the next call on the expired token started a second
\* token-endpoint call
C28_Witness ==
  \E p \in Procs, q \in Procs :
    /\ gv[p].pc = "done" /\ gv[p].rid = 1
    /\ gv[p].result.type = "WhoopAuthError"
    /\ gv[q].rid = 2 /\ gv[q].joined = 0
    /\ refreshCalls = 2

\* C6: a request that was answered 401 with an OAuth client configured made
\* exactly one HTTP call to the API and attempted exactly one refresh.
C6_OneCallOneRefresh ==
  \A p \in Requests :
    (hasOAuth /\ proc[p].saw401) =>
      (proc[p].apiCalls = 1 /\ proc[p].hRefreshes = 1)

\* C7: the 401 handling never clears the tokens after a refreshAccessToken
\* call that succeeded, and a request that ends after such a refresh leaves
\* tokens stored.
C7_ClearedOnlyOnRefreshFailure ==
  \A p \in Requests :
    /\ ~proc[p].clearedAfterOk
    /\ (proc[p].pc = "done" /\ proc[p].rres = "ok") => tokens.present

\* C8: a request whose last HTTP call was answered 401, with an OAuth client
\* configured, rejects with the WhoopAuthError built from the response.
C8_Original401Surfaces ==
  \A p \in Requests :
    (hasOAuth /\ proc[p].pc = "done" /\ proc[p].rres # "none") =>
      (proc[p].result.type = "WhoopAuthError" /\ proc[p].result.status = 401)

\* the step sends an HTTP call of request p to the API
Sends(p) == proc'[p].apiCalls = proc[p].apiCalls + 1

\* the token manager holds a token set that isTokenExpired accepts
ValidHeld(t) == hasOAuth /\ t.present /\ ~isTokenExpired(t)

\* C40: a request is not failed before its HTTP call because no token could
\* be obtained (only an aborted signal ends it without a call); an HTTP call
\* sent while a valid token is held carries that token, a call sent while no
\* tokens are held carries no Authorization header, and a bearer token that
\* is sent is the current access token.
C40_TokenAttachment ==
  /\ [](\A p \in DOMAIN proc :
          (proc[p].pc = "done" /\ proc[p].apiCalls = 0) =>
            proc[p].callerAborted)
  /\ [][\A p \in DOMAIN proc :
          Sends(p) =>
            /\ ValidHeld(tokens') => proc'[p].bearer = tokens'.access_token
            /\ (~hasOAuth \/ ~tokens'.present) => proc'[p].bearer = -1
            /\ proc'[p].bearer # -1 =>
                 proc'[p].bearer = tokens'.access_token]_vars

\* C40 (amended): a request is not failed before its HTTP call because no
\* token could be obtained; a call sent by a request that found the held
\* tokens valid carries that access token, a call sent by a request that found
\* no usable tokens carries no Authorization header, and a call sent by a
\* request that awaited a refresh carries the refreshed token if the refresh
\* succeeded and no header if it failed, whatever tokens are held by then.
C40_AttachesObtainedToken ==
  /\ [](\A p \in DOMAIN proc :
          (proc[p].pc = "done" /\ proc[p].apiCalls = 0) =>
            proc[p].callerAborted)
  /\ [][\A p \in DOMAIN proc :
          Sends(p) =>
            proc'[p].bearer =
              IF proc[p].pc = "tokWait"
              THEN IF tokens'.access_token = refreshPromise
                   THEN refreshPromise ELSE -1
              ELSE IF ValidHeld(tokens) THEN tokens.access_token ELSE -1]_vars

\* a refresh failed and the request that awaited it was sent without a
\* bearer token
C40_Witness ==
  \E p \in DOMAIN proc :
    /\ proc[p].pc = "fetch" /\ proc[p].apiCalls = 1 /\ proc[p].bearer = -1
    /\ refreshCalls = 1 /\ refreshPromise = 0
    /\ tokens.present /\ tokens.access_token = 0

\* C16: a get() call made after an identical GET returned data (no time has
\* passed, so the response is within the cache TTL) makes no HTTP call and
\* returns data.
C16_CacheHitNoNetworkCall ==
  \A p \in DOMAIN proc :
    proc[p].afterData =>
      (proc[p].apiCalls = 0 /\ proc[p].pc = "done"
       /\ proc[p].result.type = "data")

\* C17: a get() call made while an identical GET is in flight makes no HTTP
\* call of its own, and two such calls that ended received the same response.
C17_SimultaneousGetsOneCall ==
  \A p \in DOMAIN proc :
    proc[p].during =>
      /\ proc[p].apiCalls = 0
      /\ \A q \in DOMAIN proc :
           (proc[p].pc = "done" /\ proc[q].pc = "done") =>
             proc[q].result = proc[p].result

\* C18: a request whose last HTTP call was answered with an error status
\* other than 401 rejects with the API error ErrorFactory.fromHttpStatus
\* builds from that status.
C18_ApiErrorUnwrapped ==
  \A p \in DOMAIN proc :
    (proc[p].pc = "done" /\ proc[p].answered \notin {0, 200, 401}) =>
      proc[p].result = fromHttpStatus(proc[p].answered)

\* C19: no HTTP call is made for a request after the API answered it 400,
\* 401 or 404, whatever the number of attempts allowed.
C19_ClientErrorNotRetried ==
  \A p \in DOMAIN proc : ~proc[p].retried4xx

\* C20: a request that ended after the caller's signal or the timeout timer
\* fired while the HTTP call of its last attempt was in flight rejected with
\* a WhoopTimeoutError; one that ended after a transport failure of its last
\* HTTP call with no signal fired rejected with a WhoopNetworkError.
C20_AbortSurfacesAsTimeout ==
  \A p \in DOMAIN proc :
    proc[p].pc = "done" =>
      /\ proc[p].inFlightAbort => proc[p].result.type = "WhoopTimeoutError"
      /\ (proc[p].transportFail /\ ~SignalAborted(proc[p])) =>
           proc[p].result.type = "WhoopNetworkError"

\* ------------------------------------------------------------------------
\* WhoopCache
\* ------------------------------------------------------------------------
Size(c) == Cardinality({k \in DOMAIN c : c[k].present})

\* the sum of entry.size over the entries of the keys ks (an absent entry
\* counts 0)
RECURSIVE SumSizes(_, _)
SumSizes(c, ks) ==
  IF ks = {} THEN 0
  ELSE LET k == CHOOSE x \in ks : TRUE
       IN c[k].size + SumSizes(c, ks \ {k})

StoredSize(c) == SumSizes(c, DOMAIN c)

\* estimateSize, lines 212-215: the byte length of JSON.stringify(obj); the
\* values stored are integers below 100, whose JSON text is their digits
estimateSize(obj) == IF obj < 10 THEN 1 ELSE 2

\* a sequence without the key k
Without(seq, k) == SelectSeq(seq, LAMBDA x : x # k)

ExpiredAtTtl(entry) == now - entry.timestamp >= entry.ttl

\* get, line 63 / cleanup, line 201: the TTL check
Expired(entry) == now - entry.timestamp > entry.ttl

OldestKeyMostRecent(ao, c) ==
  CHOOSE k \in DOMAIN c :
    c[k].present /\ \A j \in DOMAIN c : c[j].present => ao[j] <= ao[k]

\* evictLRU, lines 177-185: the key with the smallest access counter
OldestKey(ao, c) ==
  CHOOSE k \in DOMAIN c :
    c[k].present /\ \A j \in DOMAIN c : c[j].present => ao[k] <= ao[j]

\* evictLRU, lines 187-190: `if (oldestKey)` is false for the empty string,
\* and then nothing is deleted
evictLRU(c, ao) ==
  LET oldestKey == OldestKey(ao, c)
  IN IF oldestKey = EmptyKey THEN <<c, ao>>
     ELSE <<[c EXCEPT ![oldestKey] = NoEntry], [ao EXCEPT ![oldestKey] = 0]>>

CacheOverfull(c) == Size(c) > maxSize

\* set, line 109: the condition of the eviction loop
CacheFull(c) == Size(c) >= maxSize /\ Size(c) > 0

\* set, lines 109-111: evict while the cache is full.  An iteration that
\* deletes nothing leaves the condition of the loop as it was: the loop
\* never ends (ends = FALSE), n iterations having deleted an entry.
RECURSIVE EvictLoop(_, _, _)
EvictLoop(c, ao, n) ==
  IF CacheFull(c)
  THEN LET next == evictLRU(c, ao)
       IN IF next = <<c, ao>>
          THEN [cache |-> c, order |-> ao, iterations |-> n, ends |-> FALSE]
          ELSE EvictLoop(next[1], next[2], n + 1)
  ELSE [cache |-> c, order |-> ao, iterations |-> n, ends |-> TRUE]

\* this.totalSize after an operation, with the history of its eviction loop
\* (n iterations, on a cache of `before` entries)
Accounted(total, n, before) ==
  IF mem.on
  THEN [mem EXCEPT !.totalSize = total, !.iterations = n,
                   !.sizeBefore = before]
  ELSE mem

\* an operation other than get and has returned, or threw
Returned == IF stats.on THEN [stats EXCEPT !.threw = FALSE] ELSE stats
Threw == IF stats.on THEN [stats EXCEPT !.threw = TRUE] ELSE stats

MissedUncounted(st) == st

\* get, lines 58 and 67: this.stats.misses++
Missed(st) == [st EXCEPT !.misses = @ + 1]

\* get, line 76: this.stats.hits++
Hit(st) == [st EXCEPT !.hits = @ + 1]

\* a get call made by get(key) or by has(key) is counted
Counted(st, op) ==
  IF stats.on THEN [st EXCEPT !.calls = @ + 1, !.op = op, !.threw = FALSE]
  ELSE stats

\* get(key), called by get(key) (op = "get") or by has(key), which returns
\* get(key) !== undefined (op = "has"): what it does to the cache
GetCall(k, op) ==
  /\ ~mem.hung
  /\ accessCounter < MaxOps
  /\ stats.on => stats.calls < MaxCalls
  /\ LET entry == cache[k]
     IN IF ~entry.present
        THEN /\ lastGet' = [key |-> k, hit |-> FALSE, data |-> 0, at |-> now,
                            entry |-> entry]
             /\ stats' = Counted(Missed(stats), op)
             /\ mem' = Accounted(mem.totalSize, 0, 0)
             /\ UNCHANGED <<cache, accessOrder, accessCounter, recency,
                            insertOrder, readKeys>>
        ELSE IF Expired(entry)
        THEN /\ cache' = [cache EXCEPT ![k] = NoEntry]
             /\ stats' = Counted(Missed(stats), op)
             /\ mem' = Accounted(mem.totalSize - entry.size, 0, 0)
             /\ accessOrder' = [accessOrder EXCEPT ![k] = 0]
             /\ lastGet' = [key |-> k, hit |-> FALSE, data |-> 0, at |-> now,
                            entry |-> entry]
             /\ recency' = Without(recency, k)
             /\ insertOrder' = Without(insertOrder, k)
             /\ readKeys' = readKeys \ {k}
             /\ UNCHANGED accessCounter
        ELSE /\ accessCounter' = accessCounter + 1
             /\ accessOrder' = [accessOrder EXCEPT ![k] = accessCounter + 1]
             /\ stats' = Counted(Hit(stats), op)
             /\ mem' = Accounted(mem.totalSize, 0, 0)
             /\ lastGet' = [key |-> k, hit |-> TRUE, data |-> entry.data,
                            at |-> now, entry |-> entry]
             /\ recency' = Append(Without(recency, k), k)
             /\ readKeys' = readKeys \cup {k}
             /\ UNCHANGED <<cache, insertOrder>>
  /\ lastSet' = NoSet
  /\ UNCHANGED maxSize

\* get and has called by the application
GetOp(k, op) ==
  /\ GetCall(k, op)
  /\ UNCHANGED <<now, dedupVars, authVars, retryVars, optVars>>

Get(k) == GetOp(k, "get")

\* has(key)
Has(k) == GetOp(k, "has")

\* compress is off and the cache never inspects the data it stores, except
\* that set passes it to JSON.stringify: the values passed to set are
\* numbered, so that no two entries hold the same value, and are serializable
\* or not (a value with a circular reference, a BigInt)
NextValue == accessCounter + 1

\* set, line 92: estimateSize(data) throws the TypeError of JSON.stringify
\* before anything is stored
SetThrows(k) ==
  /\ ~mem.hung
  /\ stats' = Threw
  /\ mem' = Accounted(mem.totalSize, 0, 0)
  /\ lastGet' = NoGet
  /\ lastSet' = NoSet
  /\ UNCHANGED <<cache, accessOrder, accessCounter, recency, insertOrder,
                 readKeys, maxSize, now, dedupVars, authVars, retryVars, optVars>>

\* set(key, data, customTtl) with serializable data.  When the eviction
\* loop never ends, set never returns and nothing else runs on the thread.
\* What set does to the cache:
SetCall(k, v, customTtl) ==
  /\ ~mem.hung
  /\ accessCounter < MaxOps
  /\ LET ttl == IF customTtl = NoTtl THEN DefaultTtl ELSE customTtl
         size == estimateSize(v)
         loop == EvictLoop(cache, accessOrder, 0)
         kept == {j \in DOMAIN cache : loop.cache[j].present}
         freed == StoredSize(cache) - StoredSize(loop.cache)
     IN IF loop.ends
        THEN /\ cache' = [loop.cache EXCEPT ![k] =
                            [present |-> TRUE, data |-> v, timestamp |-> now,
                             ttl |-> ttl, size |-> size]]
             /\ accessOrder' = [loop.order EXCEPT ![k] = accessCounter + 1]
             /\ accessCounter' = accessCounter + 1
             /\ recency' = Append(SelectSeq(recency,
                                    LAMBDA x : x \in kept /\ x # k), k)
             /\ insertOrder' = Append(SelectSeq(insertOrder,
                                        LAMBDA x : x \in kept /\ x # k), k)
             /\ readKeys' = (readKeys \cap kept) \ {k}
             /\ lastSet' = [evicted |->
                              {j \in DOMAIN cache : cache[j].present} \ kept,
                            readBefore |-> readKeys]
             /\ stats' = Returned
             /\ mem' = Accounted(mem.totalSize - freed + size,
                                 loop.iterations, Size(cache))
        ELSE /\ cache' = loop.cache
             /\ accessOrder' = loop.order
             /\ recency' = SelectSeq(recency, LAMBDA x : x \in kept)
             /\ insertOrder' = SelectSeq(insertOrder, LAMBDA x : x \in kept)
             /\ readKeys' = readKeys \cap kept
             /\ lastSet' = NoSet
             /\ mem' = [Accounted(mem.totalSize - freed, loop.iterations,
                                  Size(cache)) EXCEPT !.hung = TRUE]
             /\ UNCHANGED <<accessCounter, stats>>
  /\ lastGet' = NoGet
  /\ UNCHANGED maxSize

\* set called by the application
Set(k, v, customTtl) ==
  /\ SetCall(k, v, customTtl)
  /\ UNCHANGED <<now, dedupVars, authVars, retryVars, optVars>>

\* delete(key)
Delete(k) ==
  /\ ~mem.hung
  /\ cache[k].present
  /\ mem' = Accounted(mem.totalSize - cache[k].size, 0, 0)
  /\ cache' = [cache EXCEPT ![k] = NoEntry]
  /\ accessOrder' = [accessOrder EXCEPT ![k] = 0]
  /\ recency' = Without(recency, k)
  /\ insertOrder' = Without(insertOrder, k)
  /\ readKeys' = readKeys \ {k}
  /\ lastGet' = NoGet
  /\ lastSet' = NoSet
  /\ stats' = Returned
  /\ UNCHANGED <<accessCounter, maxSize, now, dedupVars, authVars, retryVars, optVars>>

\* clear()
ClearCache ==
  /\ ~mem.hung
  /\ accessCounter > 0
  /\ mem' = Accounted(0, 0, 0)
  /\ cache' = [k \in DOMAIN cache |-> NoEntry]
  /\ accessOrder' = [k \in DOMAIN cache |-> 0]
  /\ accessCounter' = 0
  /\ recency' = <<>>
  /\ insertOrder' = <<>>
  /\ readKeys' = {}
  /\ lastGet' = NoGet
  /\ lastSet' = NoSet
  /\ stats' = Returned
  /\ UNCHANGED <<maxSize, now, dedupVars, authVars, retryVars, optVars>>

\* cleanup(): the periodic sweep deletes every expired entry
Cleanup ==
  /\ ~mem.hung
  /\ \E k \in DOMAIN cache : cache[k].present /\ Expired(cache[k])
  /\ LET gone == {k \in DOMAIN cache : cache[k].present /\ Expired(cache[k])}
     IN /\ cache' = [k \in DOMAIN cache |->
                       IF k \in gone THEN NoEntry ELSE cache[k]]
        /\ mem' = Accounted(mem.totalSize - SumSizes(cache, gone), 0, 0)
        /\ accessOrder' = [k \in DOMAIN cache |->
                             IF k \in gone THEN 0 ELSE accessOrder[k]]
        /\ recency' = SelectSeq(recency, LAMBDA x : x \notin gone)
        /\ insertOrder' = SelectSeq(insertOrder, LAMBDA x : x \notin gone)
        /\ readKeys' = readKeys \ gone
  /\ lastGet' = NoGet
  /\ lastSet' = NoSet
  /\ stats' = Returned
  /\ UNCHANGED <<accessCounter, maxSize, now, dedupVars, authVars, retryVars, optVars>>

TickCache ==
  /\ ~mem.hung
  /\ now < MaxCacheTime
  /\ now' = now + 1
  /\ lastGet' = NoGet
  /\ lastSet' = NoSet
  /\ mem' = Accounted(mem.totalSize, 0, 0)
  /\ UNCHANGED <<cache, accessOrder, accessCounter, maxSize, recency,
                 insertOrder, readKeys, stats, dedupVars, authVars, retryVars, optVars>>

NextCache ==
  \/ \E k \in CacheKeys : Get(k)
  \/ \E k \in CacheKeys, t \in CustomTtls \cup {NoTtl} :
       Set(k, NextValue, t)
  \/ \E k \in CacheKeys : Delete(k)
  \/ ClearCache
  \/ Cleanup
  \/ TickCache

InitSpecCache == now = 0 /\ InitDedupIdle /\ InitAuthIdle /\ InitCache
                 /\ InitRetryIdle /\ InitOptIdle
SpecCache == InitSpecCache /\ [][NextCache]_vars

\* the cache with its counters followed, for at most MaxCalls calls of get
\* and has, on two keys
CountedKeys == {"k1", "k2"}

NextCacheCounted ==
  \/ \E k \in CountedKeys : Get(k)
  \/ \E k \in CountedKeys : Has(k)
  \/ \E k \in CountedKeys : Set(k, NextValue, NoTtl)
  \/ \E k \in CountedKeys : SetThrows(k)
  \/ \E k \in CountedKeys : Delete(k)
  \/ ClearCache
  \/ Cleanup
  \/ TickCache

InitSpecCacheCounted ==
  now = 0 /\ InitDedupIdle /\ InitAuthIdle /\ InitCacheCounted
  /\ InitRetryIdle /\ InitOptIdle
SpecCacheCounted == InitSpecCacheCounted /\ [][NextCacheCounted]_vars

NextCacheMem ==
  \/ \E k \in MemKeys : Get(k)
  \/ \E k \in MemKeys, v \in MemValues : Set(k, v, NoTtl)
  \/ \E k \in MemKeys : Delete(k)
  \/ ClearCache
  \/ Cleanup
  \/ TickCache

InitSpecCacheMem ==
  now = 0 /\ InitDedupIdle /\ InitAuthIdle /\ InitCacheMem /\ InitRetryIdle /\ InitOptIdle
SpecCacheMem == InitSpecCacheMem /\ [][NextCacheMem]_vars

\* ------------------------------------------------------------------------
\* OptimizedHttpClient (utils/http-client.ts)
\* ------------------------------------------------------------------------
NumOptRequests == 2
OptCallers == 1..NumOptRequests

\* the requests made: method, path and options.skipCache
OptInputs == {<<"GET", "u1", FALSE>>, <<"GET", "u1", TRUE>>,
              <<"GET", "u2", FALSE>>, <<"POST", "u1", FALSE>>}

\* generateCacheKey(method, url, data): one key for each request made
generateCacheKey(method, url) ==
  IF method = "GET" THEN (IF url = "u1" THEN "k1" ELSE "k2") ELSE "k3"

\* generateDedupKey(method, url, data): one key for each request made
generateDedupKey(method, url) ==
  IF method = "GET" THEN (IF url = "u1" THEN "a" ELSE "b") ELSE "c"

CacheableAnyMethod(method, skip) == ~skip

\* request, lines 213 and 234: method === 'GET' && !options.skipCache
Cacheable(method, skip) == method = "GET" /\ ~skip

\* request, lines 194-231: the cache probe, then deduplicator.execute up to
\* its first suspension point.  skipDedup is options.skipCache.
OptRequest(c, method, url, skip) ==
  /\ opt[c].st = "idle"
  /\ \A d \in OptCallers : d < c => opt[d].st # "idle"
  /\ LET cacheKey == generateCacheKey(method, url)
         dedupKey == generateDedupKey(method, url)
         probe == Cacheable(method, skip)
         entry == cache[cacheKey]
         cached == probe /\ entry.present /\ ~Expired(entry)
         me == [IdleOpt EXCEPT !.method = method, !.url = url,
                               !.skip = skip, !.probed = probe,
                               !.removed = probe /\ entry.present /\ ~cached]
     IN /\ IF probe THEN GetCall(cacheKey, "get") ELSE UNCHANGED cacheVars
        /\ IF cached
           THEN /\ opt' = [opt EXCEPT ![c] =
                            [me EXCEPT !.st = "returned",
                                       !.value = entry.data]]
                /\ UNCHANGED dedupVars
           ELSE /\ opt' = [opt EXCEPT ![c] = [me EXCEPT !.st = "executing"]]
                /\ ExecuteCall(c, IF ~enabled \/ skip THEN "a" ELSE dedupKey,
                               skip)
  /\ UNCHANGED <<now, authVars, retryVars>>

\* request, lines 222-273: execute has settled; a rejection is thrown on,
\* a result is stored by a GET without skipCache and returned
OptResume(c) ==
  /\ opt[c].st = "executing"
  /\ call[c].st \in {"resolved", "rejected"}
  /\ LET me == opt[c]
         result == call[c].result[2]
         store == Cacheable(me.method, me.skip)
     IN IF call[c].st = "resolved"
        THEN /\ IF store
                THEN SetCall(generateCacheKey(me.method, me.url), result,
                             NoTtl)
                ELSE UNCHANGED cacheVars
             /\ opt' = [opt EXCEPT ![c] =
                         [me EXCEPT !.st = "returned", !.value = result,
                                    !.stored = store]]
        ELSE /\ opt' = [opt EXCEPT ![c] = [me EXCEPT !.st = "threw"]]
             /\ UNCHANGED cacheVars
  /\ UNCHANGED <<now, dedupVars, authVars, retryVars>>

NextOpt ==
  \/ \E c \in OptCallers, in \in OptInputs :
       OptRequest(c, in[1], in[2], in[3])
  \/ \E c \in OptCallers : OptResume(c)
  \/ \E c \in OptCallers : CheckSlot(c)
  \/ \E c \in OptCallers, ok \in BOOLEAN : LeaderFinish(c, ok)
  \/ \E c \in OptCallers, ok \in BOOLEAN : DirectFinish(c, ok)
  \/ TickCache

\* a client built with a deduplicator of one slot and a cache of one or two
\* entries (config.deduplicator, config.cache): a second execution waits for
\* the slot, and a store into a full cache evicts
InitSpecOpt ==
  /\ now = 0
  /\ enabled \in BOOLEAN /\ maxConcurrent = 1
  /\ InitDedupOn(DedupKeys, IdleBatch)
  /\ InitCache /\ maxSize \in {1, 2}
  /\ InitAuthIdle /\ InitRetryIdle
  /\ opt = [c \in OptCallers |-> IdleOpt]
SpecOpt == InitSpecOpt /\ [][NextOpt]_vars

\* ------------------------------------------------------------------------
\* Properties of the OptimizedHttpClient (checked under SpecOpt)
\* ------------------------------------------------------------------------
OptKey(c) == generateCacheKey(opt[c].method, opt[c].url)

\* the step is the return of a successful GET without skipCache, which has
\* stored its result under its cache key
Stores(c) ==
  /\ opt[c].st = "executing" /\ opt'[c].st = "returned"
  /\ opt[c].method = "GET" /\ ~opt[c].skip
  /\ cache'[OptKey(c)].present
  /\ cache'[OptKey(c)].data = opt'[c].value

\* the step is the start of a GET without skipCache, whose probe found the
\* entry of its key expired and removed it, and changed no other entry
ProbeRemoves(c) ==
  /\ opt[c].st = "idle" /\ opt'[c].st = "executing"
  /\ opt'[c].method = "GET" /\ ~opt'[c].skip
  /\ cache' = [cache EXCEPT ![generateCacheKey("GET", opt'[c].url)] = NoEntry]

\* C32 (as stated): the cache is written only by a successful GET without
\* skipCache, which stores its result under its cache key before it returns;
\* a request whose execution failed, and every POST request, has neither read
\* nor written the cache and has left its content unchanged.
C32_FailedNeverReads ==
  /\ [](\A c \in OptCallers :
       /\ opt[c].stored =>
            opt[c].method = "GET" /\ ~opt[c].skip /\ opt[c].st = "returned"
       /\ (opt[c].st = "threw" \/ opt[c].method # "GET") =>
            ~opt[c].probed /\ ~opt[c].removed /\ ~opt[c].stored)
  /\ [][cache' # cache => \E c \in OptCallers : Stores(c)]_vars
  /\ [][\A c \in OptCallers :
          (opt[c].st = "executing" /\ opt'[c].st = "returned"
             /\ opt[c].method = "GET" /\ ~opt[c].skip) => Stores(c)]_vars

\* C32 (amended): the cache is written only by a successful GET without
\* skipCache, which stores its result under its cache key before it returns,
\* and by the probe of a GET without skipCache, which removes the entry of
\* its key when that entry has expired; a GET whose execution failed has
\* stored nothing; a GET with skipCache and every POST request has neither
\* read nor written the cache.
C32_CacheWrites ==
  /\ [](\A c \in OptCallers :
       /\ opt[c].stored =>
            opt[c].method = "GET" /\ ~opt[c].skip /\ opt[c].st = "returned"
       /\ opt[c].st = "threw" => ~opt[c].stored
       /\ (opt[c].method # "GET" \/ opt[c].skip) =>
            ~opt[c].probed /\ ~opt[c].removed /\ ~opt[c].stored)
  /\ [][cache' # cache =>
          \E c \in OptCallers : Stores(c) \/ ProbeRemoves(c)]_vars
  /\ [][\A c \in OptCallers :
          (opt[c].st = "executing" /\ opt'[c].st = "returned"
             /\ opt[c].method = "GET" /\ ~opt[c].skip) => Stores(c)]_vars

\* a GET has stored its result; later a GET of the same path found the entry
\* expired, removed it, and failed
C32_Witness ==
  \E c, d \in OptCallers :
    /\ opt[c].st = "returned" /\ opt[c].stored
    /\ opt[d].st = "threw" /\ opt[d].removed /\ opt[d].url = opt[c].url
    /\ ~cache[OptKey(d)].present

\* ------------------------------------------------------------------------
\* Properties of the cache (checked under SpecCache)
\* ------------------------------------------------------------------------
\* a get has just been made on a key that held an entry
GotStored == lastGet.entry.present

\* C9 (as stated): a get on a stored entry returns absent at every instant
\* now >= createdAt + ttl and the stored value at every earlier instant.
C9_AbsentFromTtl ==
  GotStored =>
    /\ lastGet.hit <=> lastGet.at < lastGet.entry.timestamp + lastGet.entry.ttl
    /\ lastGet.hit => lastGet.data = lastGet.entry.data

\* C9 (amended): a get on a stored entry returns absent at every instant
\* now > createdAt + ttl, and then removes the entry; it returns the stored
\* value at every instant now <= createdAt + ttl, the instant createdAt + ttl
\* included.
C9_TtlExpiry ==
  GotStored =>
    /\ lastGet.hit <=> lastGet.at <= lastGet.entry.timestamp + lastGet.entry.ttl
    /\ lastGet.hit => lastGet.data = lastGet.entry.data
    /\ ~lastGet.hit => ~cache[lastGet.key].present

\* a get found an entry one instant after createdAt + ttl and returned absent
C9_Witness ==
  /\ GotStored
  /\ lastGet.at = lastGet.entry.timestamp + lastGet.entry.ttl + 1
  /\ ~lastGet.hit

\* a set of a key that is not stored, into a cache holding maxSize entries
OverflowInsert ==
  /\ Size(cache) = maxSize
  /\ \E k \in DOMAIN cache : ~cache[k].present /\ cache'[k].present

Evicted == {k \in DOMAIN cache : cache[k].present /\ ~cache'[k].present}
Unread == {k \in DOMAIN cache : cache[k].present /\ k \notin readKeys}

\* the first key of seq that is in the set S
RECURSIVE FirstIn(_, _)
FirstIn(seq, S) ==
  IF seq = <<>> THEN "" ELSE
  IF Head(seq) \in S THEN Head(seq) ELSE FirstIn(Tail(seq), S)

\* C24: no operation of the cache throws.
C24_NeverThrows == ~stats.threw

\* C25: hits + misses equals the number of get and has calls made, and the
\* call just made, by get or by has, counted a hit if it found an entry that
\* is not expired and a miss otherwise, an expired entry being removed.
C25_HitsAndMisses ==
  /\ [](stats.on => stats.hits + stats.misses = stats.calls)
  /\ [][\A k \in CacheKeys :
          (lastGet' # NoGet /\ lastGet'.key = k /\ stats'.calls # stats.calls) =>
            LET live == cache[k].present /\ ~Expired(cache[k])
            IN /\ stats'.calls = stats.calls + 1
               /\ stats'.hits = stats.hits + (IF live THEN 1 ELSE 0)
               /\ stats'.misses = stats.misses + (IF live THEN 0 ELSE 1)
               /\ lastGet'.hit = live
               /\ ~live => ~cache'[k].present]_vars

\* a has call on an expired entry was counted as a miss after a get call was
\* counted as a hit
C25_Witness ==
  /\ stats.op = "has" /\ lastGet.entry.present /\ ~lastGet.hit
  /\ stats.hits = 1 /\ stats.misses = 1 /\ stats.calls = 2

\* C31: the number of stored entries never exceeds maxSize.
C31_SizeBound == Size(cache) <= maxSize

\* a set into a cache of two entries, full, evicted one entry and stored a
\* third key: the cache holds maxSize entries again
C31_Witness ==
  /\ maxSize = 2 /\ Size(cache) = 2
  /\ mem.sizeBefore = 2 /\ mem.iterations = 1
  /\ ~cache[EmptyKey].present

\* C37: totalMemory (this.totalSize) equals the sum of the recorded sizes of
\* the entries stored, and is 0 when the cache is empty.
C37_MemoryAccounting ==
  mem.on => /\ mem.totalSize = StoredSize(cache)
            /\ Size(cache) = 0 => mem.totalSize = 0

\* C38: a set on a key that is stored replaces the value of that entry and
\* evicts no other key.
C38_ReplaceEvictsNothing ==
  [][\A k \in DOMAIN cache :
       (cache[k].present /\ cache'[k].present
          /\ cache'[k].data # cache[k].data) =>
         \A j \in DOMAIN cache \ {k} : cache[j].present => cache'[j].present]_vars

\* C39: set leaves its eviction loop, after at most size - maxSize + 1
\* iterations, whichever key is the least recently used one.
C39_SetTerminates ==
  /\ ~mem.hung
  /\ mem.on => (mem.sizeBefore >= maxSize =>
                  mem.iterations <= mem.sizeBefore - maxSize + 1)

\* C10 (as stated): the insert that overflows the cache evicts the key
\* inserted first when no key was read; a key that was read before that
\* insert is kept, and the least recently used unread key is evicted instead.
C10_ReadKeysKept ==
  [][OverflowInsert =>
       /\ readKeys = {} => Evicted = {Head(insertOrder)}
       /\ (readKeys # {} /\ Unread # {}) =>
            (Evicted \cap readKeys = {} /\ Evicted = {FirstIn(recency, Unread)})
    ]_vars

\* C10 (amended): the insert that overflows the cache evicts exactly one
\* entry, the one whose latest use (its set or its latest successful get) is
\* the oldest.  With no reads that is the key inserted first.  A key that was
\* read is kept when another entry has not been used since that read; it is
\* evicted when every other entry was inserted or read after it was read.
C10_LruEviction ==
  [][OverflowInsert =>
       /\ Evicted = {Head(recency)}
       /\ readKeys = {} => Evicted = {Head(insertOrder)}
    ]_vars

\* the set just made evicted an entry although a key had been read: the read
\* key was kept and the unread entry was evicted
C10_Witness ==
  /\ lastSet.evicted # {}
  /\ lastSet.readBefore # {}
  /\ lastSet.evicted \cap lastSet.readBefore = {}
  /\ lastSet.readBefore \subseteq {k \in DOMAIN cache : cache[k].present}

\* ------------------------------------------------------------------------
\* withRetry and the retry classification
\* ------------------------------------------------------------------------
IntMin(x, y) == IF x <= y THEN x ELSE y

RECURSIVE Pow2(_)
Pow2(n) == IF n <= 0 THEN 1 ELSE 2 * Pow2(n - 1)

ApiErrorClasses ==
  {"WhoopAPIError", "WhoopAuthError", "WhoopRateLimitError",
   "WhoopNotFoundError", "WhoopValidationError"}

\* getRetryInfo(error).delayMs
delayMs(error) ==
  IF error.type = "WhoopRateLimitError"
  THEN IF error.retryAfter \notin {NoRetryAfter, 0}   \* error.retryAfter ? :
       THEN error.retryAfter * 1000 ELSE 60000
  ELSE IF error.type \in ApiErrorClasses THEN 1000
  ELSE IF error.type \in {"WhoopNetworkError", "WhoopTimeoutError"} THEN 1000
  ELSE NoDelay

\* getRetryInfo(error)
getRetryInfo(error) ==
  [canRetry |-> canRetry(error), delayMs |-> delayMs(error)]

\* withRetry, lines 57-62; random is Math.random() in thousandths
exponentialDelay(attempt) == BaseDelayMs * Pow2(attempt - 1)
jitteredDelay(attempt, random) ==
  (exponentialDelay(attempt) * (500 + random \div 2)) \div 1000

finalDelayUncapped(info, attempt, random) == info.delayMs

finalDelay(info, attempt, random) ==
  IntMin(IF info.delayMs \notin {NoDelay, 0}       \* retryInfo.delayMs ||
         THEN info.delayMs ELSE jitteredDelay(attempt, random),
         MaxDelayMs)

\* withRetry rejects with error
Rejects(rt, error) ==
  [rt EXCEPT !.pc = "done", !.settled = "rejected", !.result = error]

\* withRetry, lines 35-41: the head of the loop body for rt.attempt
LoopTop(rt) ==
  IF rt.attempt > rt.maxAttempts THEN Rejects(rt, rt.lastError)  \* line 68
  ELSE IF rt.aborted THEN Rejects(rt, AbortedErr)
  ELSE [rt EXCEPT !.pc = "calling"]

LastAttemptOffByOne(rt) == rt.attempt + 1 = rt.maxAttempts

\* withRetry, line 46
LastAttempt(rt) == rt.attempt = rt.maxAttempts

\* withRetry(fn, options) is called and runs up to its first await
WithRetry ==
  /\ retry.pc = "idle"
  /\ retry' = LoopTop([retry EXCEPT !.attempt = 1])
  /\ UNCHANGED <<now, dedupVars, authVars, cacheVars, optVars>>

\* fn() resolves
OperationResolves ==
  /\ retry.pc = "calling"
  /\ retry' = [retry EXCEPT !.pc = "done", !.settled = "resolved"]
  /\ UNCHANGED <<now, dedupVars, authVars, cacheVars, optVars>>

NeverGivesUp(info) == FALSE

\* withRetry, lines 51-54: `if (!retryInfo.canRetry) break`
GivesUp(info) == ~info.canRetry

\* fn() rejects with error: the catch block, lines 42-64
OperationRejects(error, random) ==
  /\ retry.pc = "calling"
  /\ LET rt == [retry EXCEPT !.lastError = error,
                             !.errs = Append(@, error),
                             !.abortedAtFailure = retry.aborted]
         info == getRetryInfo(error)
         seen == [rt EXCEPT !.classified = TRUE, !.retryInfo = info]
     IN retry' =
          IF LastAttempt(rt)
          THEN Rejects([rt EXCEPT !.classified = FALSE, !.retryInfo = NoInfo],
                       rt.lastError)
          ELSE IF GivesUp(info) THEN Rejects(seen, rt.lastError)
          ELSE [seen EXCEPT !.slept = finalDelay(info, rt.attempt, random),
                            !.pc = "sleeping"]
  /\ UNCHANGED <<now, dedupVars, authVars, cacheVars, optVars>>

\* the timer of sleep(finalDelay) fires: attempt++ and the loop goes on
SleepEnds ==
  /\ retry.pc = "sleeping"
  /\ retry' = LoopTop([retry EXCEPT !.attempt = @ + 1])
  /\ UNCHANGED <<now, dedupVars, authVars, cacheVars, optVars>>

\* the caller aborts options.signal while withRetry is running
AbortSignal ==
  /\ retry.pc \in {"calling", "sleeping"}
  /\ ~retry.aborted
  /\ retry' = [retry EXCEPT !.aborted = TRUE]
  /\ UNCHANGED <<now, dedupVars, authVars, cacheVars, optVars>>

NextRetry ==
  \/ WithRetry
  \/ OperationResolves
  \/ \E error \in OperationErrors, random \in Randoms :
       OperationRejects(error, random)
  \/ SleepEnds
  \/ AbortSignal

InitSpecRetry == now = 0 /\ InitDedupIdle /\ InitAuthIdle /\ InitCacheIdle
                 /\ InitRetry /\ InitOptIdle
SpecRetry == InitSpecRetry /\ [][NextRetry]_vars

\* the operation settles and timers fire
SpecRetryLive ==
  /\ SpecRetry
  /\ WF_vars(WithRetry)
  /\ WF_vars(OperationResolves
             \/ \E error \in OperationErrors, random \in Randoms :
                  OperationRejects(error, random))
  /\ WF_vars(SleepEnds)

\* ------------------------------------------------------------------------
\* Properties of withRetry (checked under SpecRetry and SpecRetryLive)
\* ------------------------------------------------------------------------
\* the number of invocations of the operation made so far
Invocations ==
  Len(retry.errs)
  + (IF retry.pc = "calling" \/ retry.settled = "resolved" THEN 1 ELSE 0)

\* C11: when the first invocation of the operation rejects with an error that
\* is not retryable, withRetry has invoked the operation exactly once and has
\* rejected with that error, whatever maxAttempts >= 1 is.
C11_NonRetryableOnce ==
  (Len(retry.errs) >= 1 /\ ~canRetry(retry.errs[1])) =>
    /\ Invocations = 1
    /\ retry.pc = "done" /\ retry.settled = "rejected"
    /\ retry.result = retry.errs[1]

\* maxAttempts = 3 and the operation rejected with a non-retryable error
C11_Witness ==
  /\ retry.maxAttempts = 3
  /\ Len(retry.errs) = 1 /\ ~canRetry(retry.errs[1])
  /\ retry.settled = "rejected"

\* every invocation failed with a retryable error and the signal was never
\* aborted
AlwaysRetryable ==
  /\ ~retry.aborted
  /\ retry.settled # "resolved"
  /\ \A i \in 1..Len(retry.errs) : canRetry(retry.errs[i])

\* C12: withRetry with maxAttempts = n terminates, and when no abort occurred
\* and every invocation failed with a retryable error it has invoked the
\* operation exactly n times and rejects with the error of the n-th one.
C12_Exhaustion ==
  /\ []((retry.pc = "done" /\ AlwaysRetryable) =>
          /\ Invocations = retry.maxAttempts
          /\ retry.settled = "rejected"
          /\ retry.result = retry.errs[retry.maxAttempts])
  /\ <>(retry.pc = "done")

\* three attempts failed with retryable errors, the last error differs from
\* the earlier ones and is the one withRetry rejected with
C12_Witness ==
  /\ retry.pc = "done" /\ AlwaysRetryable
  /\ retry.maxAttempts = 3 /\ Len(retry.errs) = 3
  /\ retry.errs[3] \notin {retry.errs[1], retry.errs[2]}
  /\ retry.result = retry.errs[3]

\* C13: whenever withRetry rejects after having invoked the operation, it
\* rejects with the error produced by the last invocation of the operation.
C13_LastErrorUnmodified ==
  (retry.pc = "done" /\ retry.settled = "rejected" /\ retry.errs # <<>>) =>
    retry.result = retry.errs[Len(retry.errs)]

\* C14: the classification withRetry obtained for the error of the latest
\* invocation is: rate-limit error, retryable with hint retryAfter*1000 ms if
\* retryAfter is present and 60000 ms otherwise; other API error, retryable
\* iff status >= 500; network or timeout error, retryable with hint 1000 ms;
\* any other error, not retryable.
C14_Classification ==
  retry.classified =>
    LET error == retry.lastError
        info == retry.retryInfo
    IN IF error.type = "WhoopRateLimitError"
       THEN /\ info.canRetry
            /\ info.delayMs = IF error.retryAfter # NoRetryAfter
                              THEN error.retryAfter * 1000 ELSE 60000
       ELSE IF error.type \in ApiErrorClasses
       THEN info.canRetry <=> error.status >= 500
       ELSE IF error.type \in {"WhoopNetworkError", "WhoopTimeoutError"}
       THEN info.canRetry /\ info.delayMs = 1000
       ELSE ~info.canRetry

\* C26: withRetry never sleeps for a backoff delay after an invocation that
\* failed while the signal was already aborted, and it never invokes the
\* operation once the signal is aborted.
C26_NoBackoffAfterAbort ==
  /\ [](retry.pc = "sleeping" => ~retry.abortedAtFailure)
  /\ [][retry.aborted => ~(retry.pc # "calling" /\ retry'.pc = "calling")]_vars

C15_ExpiryFromIssue ==
  tokens.present =>
    (isTokenExpired(tokens) <=>
       now >= tokens.storedAt + tokens.expires_in * 1000 - BufferMs)
====
